---- MODULE Spec2Model ----
(***************************************************************************)
(* sparklinkAI: the streaming chat endpoint (api/chat.py), the chat        *)
(* service behind it (services/chat_service.py) and the conversation       *)
(* history kept in MySQL (chat_messages) and Redis.                        *)
(*                                                                         *)
(* A Python str is a sequence of one-character strings.  Chinese literals  *)
(* of the source are spelled one pinyin syllable per character, so that    *)
(* their lengths are the lengths of the source literals.                   *)
(***************************************************************************)
EXTENDS Integers, Sequences, FiniteSets, TLC

\* ------------------------------------------------------------------ bounds
MaxStreams == 1      \* chat_stream requests issued in one behaviour
MaxChunks == 2       \* chunks one upstream LLM response can deliver
MaxCalls == 3        \* history-store calls in one behaviour
MaxClock == 1        \* distinct created_at timestamps (seconds)

\* --------------------------------------------------------------- strings
Whitespace == {" ", "\n", "\t"}

\* truthiness of s.strip(): some character of s is not whitespace
strip_nonempty(s) == \E i \in 1..Len(s) : s[i] \notin Whitespace

\* "抱歉，生成回复时出现错误。" (13 characters)
FALLBACK_CONTENT ==
    <<"bao", "qian", ",", "sheng", "cheng", "hui", "fu", "shi", "chu",
      "xian", "cuo", "wu", ".">>

\* "\n\n[此消息已被用户中断]" (13 characters)
INTERRUPT_MARKER ==
    <<"\n", "\n", "[", "ci", "xiao", "xi", "yi", "bei", "yong", "hu",
      "zhong", "duan", "]">>

\* title given to a session created by the first message: "新会话"
TEMP_TITLE == <<"xin", "hui", "hua">>

\* the conversation cache keeps the most recent 50 messages
HISTORY_LIMIT == 50

\* a history read from MySQL returns at most 50 rows
HISTORY_QUERY_LIMIT == 50

\* ---------------------------------------------------------------- inputs
SessionIds == {"s1", "s2"}
NoSession == ""                       \* ChatRequest.session_id = None
RequestIdSeq == <<"r1", "r2", "r3">>  \* successive values of uuid.uuid4().hex
RequestIds == {RequestIdSeq[i] : i \in 1..Len(RequestIdSeq)}
UnknownRequestId == "r0"              \* an id chat_stream never issued

UserMessages == {<<"h", "i">>}
AssistantMessages == {<<"o", "k">>, <<"y">>}
PartialResponses == {<<>>, <<" ", "\n">>, <<"o">>}
LLMTitles == {<<"T">>}
Hits == {<<>>, <<"k1">>}              \* a list of retrieval hits

\* fields declared by the request model
ChatRequestFields ==
    {"message", "session_id", "session_name", "is_first", "user_id",
     "use_knowledge_base", "use_web_search", "stream"}

ChatRequests ==
    [message : UserMessages, session_id : SessionIds \cup {NoSession},
     is_first : BOOLEAN]

\* columns of table chat_messages
ChatMessageColumns ==
    {"id", "session_id", "request_id", "role", "content", "sequence_number",
     "created_at", "use_knowledge_base", "use_web_search",
     "knowledge_sources", "web_search_results"}

\* keyword parameters save_conversation_history accepts
save_conversation_history_params ==
    {"session_id", "user_message", "assistant_message", "knowledge_sources",
     "web_search_results", "user_request_id", "assistant_request_id"}

\* keyword arguments chat_stream passes to save_conversation_history
chat_stream_save_kwargs ==
    {"session_id", "user_message", "assistant_message", "knowledge_sources",
     "web_search_results", "thinking_process"}

\* --------------------------------------------------------------- state
VARIABLES
    active_streams,    \* request id -> [cancelled]; core.shared_state
    streams,           \* request id -> the state of its generate() generator
    stop_result,       \* the response of the last stop_stream call
    sessions,          \* table chat_sessions: session id -> [title]
    messages,          \* table chat_messages: a set of rows
    next_message_id,   \* stands for the uuid of the next row
    cache,             \* Redis: session id -> cached history (<<>>: no key)
    clock,             \* get_shanghai_time(), in seconds
    writers,           \* concurrent save_conversation_history calls
    cleanups,          \* history: times the finalizer deleted each request id
    stop_mark,         \* history: units emitted and chunks fetched when the
                       \* cancelled flag of each request id was first set
    used_seq,          \* history: <<session, sequence number>> ever stored
    appended,          \* history: appends committed for each session
    deleted,           \* history: whether a row was ever deleted
    calls,             \* history: number of history-store calls made
    last_call,         \* history: the last history-store call, with the
                       \* rows stored before it
    collection_fields, \* Milvus: the fields of the collection (<<>>: the
                       \* service has not opened it yet)
    vectors,           \* Milvus: the entities of the collection
    jobs,              \* ingestion jobs inserting the vectors of a document
    kb_documents,      \* table of KbDocument records: doc_id -> record
    kb_response,       \* the response of the last processing endpoint call
    documents,         \* table documents: id -> row
    document_chunks,   \* table document_chunks: a set of rows
    task_runs,         \* Celery: the task executions and their states
    search,            \* search: the last call of intelligent_search, its
                       \* inputs, the gateways it called and its result
    search_stats,      \* search: the counters a PocketFlow instance keeps
    fusion,            \* search: the last call of _merge_and_rank_results
    chunking,          \* chunking: the last call of a chunking routine
    kbase              \* knowledge base: the KbDocument rows, the entities of
                       \* the collection and the last endpoint call

vars ==
    <<active_streams, streams, stop_result, sessions, messages,
      next_message_id, cache, clock, writers, cleanups, stop_mark, used_seq,
      appended, deleted, calls, last_call, collection_fields, vectors, jobs,
      kb_documents, kb_response, documents, document_chunks, task_runs,
      search, search_stats, fusion, chunking, kbase>>

search_vars == <<search, search_stats, fusion, chunking, kbase>>
vector_vars == <<collection_fields, vectors, jobs>>
task_vars == <<kb_documents, kb_response, documents, document_chunks,
               task_runs>>
ingest_vars == <<vector_vars, task_vars>>
chat_vars ==
    <<active_streams, streams, stop_result, sessions, messages,
      next_message_id, cache, clock, writers, cleanups, stop_mark, used_seq,
      appended, deleted, calls, last_call>>

stream_vars == <<active_streams, streams, stop_result, cleanups, stop_mark>>
store_vars == <<sessions, messages, next_message_id, cache>>
history_vars == <<used_seq, appended, deleted, calls, last_call>>

\* the database and cache a handler works on, as one value
DB ==
    [sessions |-> sessions, messages |-> messages,
     next_message_id |-> next_message_id, cache |-> cache, clock |-> clock]

\* ------------------------------------------------- conversation history
SessionRows(msgs, sid) == {m \in msgs : m.session_id = sid}

\* next_sequence without the increment
next_sequence_mut(msgs, sid) ==
    LET S == {m.sequence_number : m \in SessionRows(msgs, sid)}
    IN  IF S = {} THEN 1
        ELSE CHOOSE n \in S : \A k \in S : k <= n

\* the query of the largest sequence number of the session, plus one;
\* 1 when the session has no row
next_sequence(msgs, sid) ==
    LET S == {m.sequence_number : m \in SessionRows(msgs, sid)}
    IN  IF S = {} THEN 1
        ELSE (CHOOSE n \in S : \A k \in S : k <= n) + 1

\* the orders in which ORDER BY created_at ASC can return the rows: rows with
\* equal timestamps come in any order
RECURSIVE OrderedByCreatedAt(_)
OrderedByCreatedAt(S) ==
    IF S = {} THEN {<<>>}
    ELSE UNION {
           {<<m>> \o t : t \in OrderedByCreatedAt(S \ {m})} :
           m \in {x \in S : \A y \in S : x.created_at <= y.created_at}}

FirstN(q, n) == IF Len(q) > n THEN SubSeq(q, 1, n) ELSE q
LastN(q, n) == IF Len(q) > n THEN SubSeq(q, Len(q) - n + 1, Len(q)) ELSE q

Simple(q) == [i \in 1..Len(q) |-> [role |-> q[i].role, content |-> q[i].content]]

\* ChatService._get_conversation_history: the cached history when the key
\* holds one, else the rows of MySQL, which are then cached when there are any.
\* Yields the possible [history, cache] results.
get_conversation_history(db, sid) ==
    IF sid = NoSession
    THEN {[history |-> <<>>, cache |-> db.cache]}
    ELSE IF db.cache[sid] # <<>>
    THEN {[history |-> db.cache[sid], cache |-> db.cache]}
    ELSE {[history |-> Simple(FirstN(q, HISTORY_QUERY_LIMIT)),
           cache |-> IF q # <<>>
                     THEN [db.cache EXCEPT
                             ![sid] = Simple(FirstN(q, HISTORY_QUERY_LIMIT))]
                     ELSE db.cache] :
          q \in OrderedByCreatedAt(SessionRows(db.messages, sid))}

\* the orders in which ORDER BY sequence_number ASC can return the rows
RECURSIVE OrderedBySequence(_)
OrderedBySequence(S) ==
    IF S = {} THEN {<<>>}
    ELSE UNION {
           {<<m>> \o t : t \in OrderedBySequence(S \ {m})} :
           m \in {x \in S :
                    \A y \in S : x.sequence_number <= y.sequence_number}}

MESSAGES_LIMIT == 50

\* get_chat_messages with its default skip and limit: the possible answers
get_chat_messages(db, sid) ==
    {FirstN(q, MESSAGES_LIMIT) :
       q \in OrderedBySequence(SessionRows(db.messages, sid))}

\* the two rows save_conversation_history adds
NewRows(db, sid, user_message, assistant_message, ks, ws, seq) ==
    {[id |-> db.next_message_id, session_id |-> sid, role |-> "user",
      content |-> user_message, sequence_number |-> seq,
      created_at |-> db.clock, knowledge_sources |-> <<>>,
      web_search_results |-> <<>>],
     [id |-> db.next_message_id + 1, session_id |-> sid,
      role |-> "assistant", content |-> assistant_message,
      sequence_number |-> seq + 1, created_at |-> db.clock,
      knowledge_sources |-> ks, web_search_results |-> ws]}

\* the Redis half of save_conversation_history, after the commit
UpdateCache(db, sid, user_message, assistant_message) ==
    {[db EXCEPT !.cache =
        [h.cache EXCEPT ![sid] =
            LastN(h.history \o
                  <<[role |-> "user", content |-> user_message],
                    [role |-> "assistant", content |-> assistant_message]>>,
                  HISTORY_LIMIT)]] :
     h \in get_conversation_history(db, sid)}

\* the MySQL half: both rows are added and committed; a session id that is
\* not in chat_sessions violates the foreign key, the commit raises and the
\* handler rolls back
CommitRows(db, sid, user_message, assistant_message, ks, ws, seq) ==
    [db EXCEPT
       !.messages = @ \cup NewRows(db, sid, user_message, assistant_message,
                                   ks, ws, seq),
       !.next_message_id = @ + 2]

\* ChatService.save_conversation_history: the possible resulting databases
save_conversation_history(db, sid, user_message, assistant_message, ks, ws) ==
    IF sid \notin DOMAIN db.sessions
    THEN {db}
    ELSE UpdateCache(
           CommitRows(db, sid, user_message, assistant_message, ks, ws,
                      next_sequence(db.messages, sid)),
           sid, user_message, assistant_message)

\* handle_stream_interruption storing the partial response as it is
handle_stream_interruption_mut(db, sid, user_message, partial_response) ==
    IF strip_nonempty(partial_response)
    THEN save_conversation_history(db, sid, user_message, partial_response,
                                   <<>>, <<>>)
    ELSE {db}

\* ChatService.handle_stream_interruption
handle_stream_interruption(db, sid, user_message, partial_response) ==
    IF strip_nonempty(partial_response)
    THEN save_conversation_history(db, sid, user_message,
                                   partial_response \o INTERRUPT_MARKER,
                                   <<>>, <<>>)
    ELSE {db}

\* ChatService.generate_session_title_from_input: the title the model
\* returns, cut to 15 characters, or the start of the user message
TitleCut(t, n) == IF Len(t) > n THEN SubSeq(t, 1, n) ELSE t
Ellipsis(t, n) == IF Len(t) > n THEN SubSeq(t, 1, n) \o <<".", ".", ".">> ELSE t
generate_session_title_from_input(user_message) ==
    {TitleCut(t, 15) : t \in LLMTitles} \cup {Ellipsis(user_message, 12)}

\* ------------------------------------------------------ the chat stream
NoType == ""          \* a unit without a 'type' key
Unit(t, c) == [type |-> t, content |-> c, error |-> <<>>]
ErrorUnit(e) == [type |-> "error", content |-> <<>>, error |-> e]
ValidationUnit(e) == [type |-> NoType, content |-> <<>>, error |-> e]

Unbound == [bound |-> FALSE, knowledge_results |-> <<>>, web_results |-> <<>>]
SearchResults == [bound : {TRUE}, knowledge_results : Hits, web_results : Hits]

NoRequest == [message |-> <<>>, session_id |-> NoSession, is_first |-> FALSE]

\* the locals of one generate() generator and the units it has yielded
IdleStream ==
    [pc |-> "unused", request |-> NoRequest, full_response |-> <<>>,
     thinking_process |-> <<>>, was_cancelled |-> FALSE,
     search_result |-> Unbound, out |-> <<>>, gen |-> "unstarted",
     pending |-> <<>>, fetched |-> 0, save_calls |-> 0]

\* yield a unit and stay suspended at that yield
Emit(s, u, pc) == [s EXCEPT !.out = Append(@, u), !.pc = pc]

\* what the upstream LLM stream can deliver as one chunk
LLMChunks ==
    {[choices |-> FALSE, content |-> <<>>, reasoning |-> <<>>],
     [choices |-> TRUE, content |-> <<>>, reasoning |-> <<>>],
     [choices |-> TRUE, content |-> <<"H", "i">>, reasoning |-> <<>>],
     [choices |-> TRUE, content |-> <<"a">>, reasoning |-> <<>>],
     [choices |-> TRUE, content |-> <<>>, reasoning |-> <<"u", "m">>],
     [choices |-> TRUE, content |-> <<"o", "k">>, reasoning |-> <<"u", "m">>]}

\* the cancellation test of both loops
is_cancelled(reg, request_id) ==
    request_id \in DOMAIN reg /\ reg[request_id].cancelled

\* the for loop of generate_stream_response, up to its next yield or its end
RECURSIVE LoopFetch(_, _, _)
LoopFetch(s, db, cancelled) ==
    {[kind |-> "stop", value |-> <<>>,
      stream |-> [s EXCEPT !.gen = "finished"], db |-> db]}
    \cup
    (IF s.fetched >= MaxChunks THEN {}
     ELSE
       {[kind |-> "yield", value |-> FALLBACK_CONTENT,
         stream |-> [s EXCEPT !.gen = "after_fallback"], db |-> db]}
       \cup
       UNION {
         LET s1 == [s EXCEPT !.fetched = @ + 1]
         IN  IF cancelled
             THEN {[kind |-> "stop", value |-> <<>>,
                    stream |-> [s1 EXCEPT !.gen = "finished"], db |-> db]}
             ELSE IF ~c.choices
             THEN LoopFetch(s1, db, cancelled)
             ELSE IF c.content # <<>>
             THEN {[kind |-> "yield", value |-> c.content,
                    stream |-> [s1 EXCEPT !.gen = "after_content",
                                          !.pending = c.reasoning],
                    db |-> db]}
             ELSE IF c.reasoning # <<>>
             THEN {[kind |-> "yield", value |-> c.reasoning,
                    stream |-> [s1 EXCEPT !.gen = "in_loop"], db |-> db]}
             ELSE LoopFetch(s1, db, cancelled)
         : c \in LLMChunks})

\* ChatService.generate_stream_response, resumed: what it yields next, or
\* that it is exhausted
generate_stream_response(s, db, cancelled) ==
    IF s.gen = "unstarted"
    THEN UNION {
           LET db1 == [db EXCEPT !.cache = h.cache]
           IN  {[kind |-> "yield", value |-> FALLBACK_CONTENT,
                 stream |-> [s EXCEPT !.gen = "after_fallback"], db |-> db1]}
               \cup LoopFetch([s EXCEPT !.gen = "in_loop"], db1, cancelled)
           : h \in get_conversation_history(db, s.request.session_id)}
    ELSE IF s.gen = "after_content" /\ s.pending # <<>>
    THEN {[kind |-> "yield", value |-> s.pending,
           stream |-> [s EXCEPT !.gen = "in_loop", !.pending = <<>>],
           db |-> db]}
    ELSE IF s.gen \in {"after_content", "in_loop"}
    THEN LoopFetch(s, db, cancelled)
    ELSE {[kind |-> "stop", value |-> <<>>,
           stream |-> [s EXCEPT !.gen = "finished"], db |-> db]}

\* the end of generate() reached without yielding the end unit
EmitEnd_mut(s) == [s EXCEPT !.pc = "y_end"]

\* generate() yields the end unit
EmitEnd(s) == Emit(s, Unit("end", <<>>), "y_end")

SetTitle(sess, sid, t) ==
    IF sid \in DOMAIN sess THEN [sess EXCEPT ![sid].title = t] ELSE sess

\* a call binds when every keyword it passes is a parameter of the callee
Binds(kwargs, params) == kwargs \subseteq params

\* a failed append that escapes to the handler of unexpected exceptions
SaveFailed_mut(s, db) ==
    {[stream |-> Emit(s, ErrorUnit(<<"TypeError">>), "y_error"), db |-> db]}

\* the handler around the append: the exception is logged, nothing was
\* stored, and generate() goes on to its end unit
SaveFailed(s, db) == {[stream |-> EmitEnd(s), db |-> db]}

\* generate(), from the end of the generation loop to its next yield: the
\* exchange is stored, the title of a first exchange is generated, and the
\* next unit is the title update or the end unit
Completion(s0, db) ==
    LET sid == s0.request.session_id
        user_message == s0.request.message
        s == [s0 EXCEPT !.save_calls =
                IF strip_nonempty(s0.full_response) THEN @ + 1 ELSE @]
    IN  IF s.was_cancelled
        THEN {[stream |-> EmitEnd(s), db |-> d] :
              d \in handle_stream_interruption(db, sid, user_message,
                                               s.full_response)}
        ELSE IF ~strip_nonempty(s.full_response)
        THEN {[stream |-> EmitEnd(s), db |-> db]}
        ELSE IF ~s.search_result.bound
                \/ ~Binds(chat_stream_save_kwargs,
                          save_conversation_history_params)
        THEN \* evaluating the arguments or binding them raises
             SaveFailed(s, db)
        ELSE UNION {
               IF s.request.is_first
               THEN {[stream |-> Emit(s, Unit("title_update", t), "y_title"),
                      db |-> [d EXCEPT !.sessions = SetTitle(@, sid, t)]] :
                     t \in generate_session_title_from_input(user_message)}
               ELSE {[stream |-> EmitEnd(s), db |-> d]}
               : d \in save_conversation_history(
                         db, sid, user_message, s.full_response,
                         s.search_result.knowledge_results,
                         s.search_result.web_results)}

\* the except clause of the generation try block: the apology is yielded
Fallback(s, db) ==
    [stream |-> Emit(s, Unit("content", FALLBACK_CONTENT), "y_fallback"),
     db |-> db]

\* generate(), from the start of the generation try block to its next yield:
\* reading request.search_strategy raises AttributeError unless the request
\* model declares the field
SearchAndSource(s, db) ==
    IF "search_strategy" \notin ChatRequestFields
    THEN {Fallback(s, db)}
    ELSE {[stream |-> Emit([s EXCEPT !.search_result = sr],
                           Unit("source",
                                sr.knowledge_results \o sr.web_results),
                           "y_source"),
           db |-> db] : sr \in SearchResults}

\* the body of the async for loop for what the service generator produced:
\* the item is unpacked into (_type, chunk), which raises ValueError unless
\* the yielded str has exactly two characters
Consume(o) ==
    IF o.kind = "stop"
    THEN Completion(o.stream, o.db)
    ELSE IF Len(o.value) # 2
    THEN {Fallback(o.stream, o.db)}
    ELSE LET type == o.value[1]
             chunk == <<o.value[2]>>
             s2 == [o.stream EXCEPT
                      !.full_response =
                          IF type = "content" THEN @ \o chunk ELSE @,
                      !.thinking_process =
                          IF type = "think" THEN @ \o chunk ELSE @]
         IN  {[stream |-> Emit(s2, Unit(type, chunk), "y_unit"),
               db |-> o.db]}

\* a finalizer that leaves the registry as it is
finalize_mut(reg, request_id) == reg

\* the finalizer of generate()
finalize(reg, request_id) ==
    IF request_id \in DOMAIN reg
    THEN [x \in DOMAIN reg \ {request_id} |-> reg[x]]
    ELSE reg

\* ChatService.stop_stream_generation
stop_stream_generation(reg, request_id) ==
    IF request_id \notin DOMAIN reg
    THEN [success |-> FALSE, registry |-> reg]
    ELSE [success |-> TRUE,
          registry |-> [reg EXCEPT ![request_id].cancelled = TRUE]]

\* stop_stream without its own test of the registry
stop_stream_mut(reg, request_id) ==
    LET g == stop_stream_generation(reg, request_id)
    IN  [status_code |-> IF g.success THEN 200 ELSE 500,
         registry |-> g.registry]

\* the stop_stream endpoint: its status code and the registry it leaves
stop_stream(reg, request_id) ==
    IF request_id \notin DOMAIN reg
    THEN [status_code |-> 404, registry |-> reg]
    ELSE LET g == stop_stream_generation(reg, request_id)
         IN  [status_code |-> IF g.success THEN 200 ELSE 500,
              registry |-> g.registry]

AddSession(sess, sid) ==
    [x \in DOMAIN sess \cup {sid} |->
        IF x = sid THEN [title |-> TEMP_TITLE] ELSE sess[x]]

\* generate(), from the start marker to its next yield: the session id is
\* validated, the session of a first message is inserted (a duplicate
\* primary key makes the commit raise), and generation starts
Setup(s, db) ==
    LET sid == s.request.session_id
    IN  IF sid = NoSession
        THEN {[stream |-> Emit(s, ValidationUnit(<<"create a session first">>),
                               "y_return"),
               db |-> db]}
        ELSE IF s.request.is_first
        THEN IF sid \in DOMAIN db.sessions
             THEN {[stream |-> Emit(s, ErrorUnit(<<"IntegrityError">>),
                                    "y_error"),
                    db |-> db]}
             ELSE {[stream |-> Emit(s, Unit("session_info", <<sid>>),
                                    "y_session_info"),
                    db |-> [db EXCEPT !.sessions = AddSession(@, sid)]]}
        ELSE IF sid \notin DOMAIN db.sessions
        THEN {[stream |-> Emit(s, ValidationUnit(<<"no such session">>),
                               "y_return"),
               db |-> db]}
        ELSE SearchAndSource(s, db)

SeqsOf(msgs) == {<<m.session_id, m.sequence_number>> : m \in msgs}

\* the history variables after a handler left the rows of after
Record(after) ==
    /\ used_seq' = used_seq \cup SeqsOf(after.messages)
    /\ appended' =
         [x \in SessionIds |->
            IF SessionRows(after.messages, x) \subseteq messages
            THEN appended[x] ELSE appended[x] + 1]

\* the generator's new locals and the database it leaves
Apply(r, o) ==
    /\ streams' = [streams EXCEPT ![r] = o.stream]
    /\ sessions' = o.db.sessions
    /\ messages' = o.db.messages
    /\ next_message_id' = o.db.next_message_id
    /\ cache' = o.db.cache
    /\ Record(o.db)

Issued == Cardinality({r \in RequestIds : streams[r].pc # "unused"})

\* chat_stream: a fresh request id is registered and the response is returned
ChatStream(req) ==
    /\ Issued < MaxStreams
    /\ Issued < Len(RequestIdSeq)
    /\ LET r == RequestIdSeq[Issued + 1] IN
         /\ active_streams' =
              [x \in DOMAIN active_streams \cup {r} |->
                  IF x = r THEN [cancelled |-> FALSE] ELSE active_streams[x]]
         /\ streams' = [streams EXCEPT
                          ![r] = [IdleStream EXCEPT !.pc = "created",
                                                    !.request = req]]
    /\ UNCHANGED <<ingest_vars, search_vars>>
    /\ UNCHANGED <<stop_result, cleanups, stop_mark, store_vars, clock,
                   writers, history_vars>>

\* generate(): the request-id unit, then the start marker
GenPrologue(r) ==
    /\ streams[r].pc \in {"created", "y_request_id"}
    /\ streams' =
         [streams EXCEPT ![r] =
            IF @.pc = "created"
            THEN Emit(@, Unit("request_id", <<r>>), "y_request_id")
            ELSE Emit(@, Unit("start", <<>>), "y_start")]
    /\ UNCHANGED <<ingest_vars, search_vars>>
    /\ UNCHANGED <<active_streams, stop_result, cleanups, stop_mark,
                   store_vars, clock, writers, history_vars>>

\* generate(), resumed after the start marker
GenSetup(r) ==
    /\ streams[r].pc = "y_start"
    /\ \E o \in Setup(streams[r], DB) : Apply(r, o)
    /\ UNCHANGED <<ingest_vars, search_vars>>
    /\ UNCHANGED <<active_streams, stop_result, cleanups, stop_mark, clock,
                   writers, deleted, calls, last_call>>

\* generate(), resumed inside the generation try block
GenGenerate(r) ==
    /\ streams[r].pc \in {"y_session_info", "y_source", "y_unit"}
    /\ LET s == streams[r]
           cancelled == is_cancelled(active_streams, r)
           outcomes ==
             IF s.pc = "y_session_info"
             THEN SearchAndSource(s, DB)
             ELSE IF s.pc = "y_unit" /\ cancelled
             THEN Completion([s EXCEPT !.was_cancelled = TRUE], DB)
             ELSE UNION {Consume(g) :
                         g \in generate_stream_response(s, DB, cancelled)}
       IN  \E o \in outcomes : Apply(r, o)
    /\ UNCHANGED <<ingest_vars, search_vars>>
    /\ UNCHANGED <<active_streams, stop_result, cleanups, stop_mark, clock,
                   writers, deleted, calls, last_call>>

\* generate(), resumed after the apology or after the title update
GenComplete(r) ==
    /\ streams[r].pc \in {"y_fallback", "y_title"}
    /\ LET s == streams[r]
           outcomes ==
             IF s.pc = "y_title"
             THEN {[stream |-> EmitEnd(s), db |-> DB]}
             ELSE Completion(
                    [s EXCEPT !.full_response =
                                 IF @ = <<>> THEN FALLBACK_CONTENT ELSE @],
                    DB)
       IN  \E o \in outcomes : Apply(r, o)
    /\ UNCHANGED <<ingest_vars, search_vars>>
    /\ UNCHANGED <<active_streams, stop_result, cleanups, stop_mark, clock,
                   writers, deleted, calls, last_call>>

\* generate() returns after its terminal unit and its finalizer runs
GenFinally(r) ==
    /\ streams[r].pc \in {"y_end", "y_error", "y_return"}
    /\ active_streams' = finalize(active_streams, r)
    /\ cleanups' = [cleanups EXCEPT
                      ![r] = IF active_streams' # active_streams
                             THEN @ + 1 ELSE @]
    /\ streams' = [streams EXCEPT ![r].pc = "done"]
    /\ UNCHANGED <<ingest_vars, search_vars>>
    /\ UNCHANGED <<stop_result, stop_mark, store_vars, clock, writers,
                   history_vars>>

\* the stop_stream endpoint
StopStream(request_id) ==
    LET res == stop_stream(active_streams, request_id)
    IN  /\ active_streams' = res.registry
        /\ stop_result' = [request_id |-> request_id,
                           status_code |-> res.status_code]
        /\ stop_mark' =
             [r \in RequestIds |->
                IF r = request_id /\ ~stop_mark[r].set
                   /\ is_cancelled(res.registry, r)
                THEN [set |-> TRUE, units |-> Len(streams[r].out),
                      fetched |-> streams[r].fetched]
                ELSE stop_mark[r]]
        /\ UNCHANGED <<ingest_vars, search_vars>>
        /\ UNCHANGED <<streams, cleanups, store_vars, clock, writers,
                       history_vars>>

\* ----------------------------------------------------------- chunking
\* settings.chunk_size (its fallback), and the overlap the tasks pass
CHUNK_SIZE == 512
CHUNK_OVERLAP == 50
\* split_content drops the chunks that are not longer than this
MIN_CHUNK_LENGTH == 20

\* the positions of s that hold no whitespace
Solid(s) == {i \in 1..Len(s) : s[i] \notin Whitespace}

\* the least member of a set of positions
First(S) == CHOOSE i \in S : \A j \in S : i <= j

\* str.lstrip() and str.rstrip()
lstrip(s) ==
    IF Solid(s) = {} THEN <<>> ELSE SubSeq(s, First(Solid(s)), Len(s))

rstrip(s) ==
    IF Solid(s) = {} THEN <<>>
    ELSE SubSeq(s, 1, CHOOSE i \in Solid(s) : \A j \in Solid(s) : j <= i)

\* str.strip()
strip(s) == rstrip(lstrip(s))

\* content.split('\n\n'), cur being the piece read so far
RECURSIVE split_paragraphs(_, _)
split_paragraphs(s, cur) ==
    LET seps == {i \in 1..(Len(s) - 1) : s[i] = "\n" /\ s[i + 1] = "\n"}
    IN  IF seps = {} THEN <<cur \o s>>
        ELSE <<cur \o SubSeq(s, 1, First(seps) - 1)>>
             \o split_paragraphs(SubSeq(s, First(seps) + 2, Len(s)), <<>>)

\* the sentence endings of _split_sentences; the four full-width ones are
\* spelled by name
SentenceEndings ==
    {".", "!", "?", ";", "juhao", "tanhao", "wenhao", "fenhao"}

\* re.split(r'[.!?...;]\s*', text)
RECURSIVE re_split(_, _)
re_split(s, cur) ==
    LET ends == {i \in 1..Len(s) : s[i] \in SentenceEndings}
    IN  IF ends = {} THEN <<cur \o s>>
        ELSE <<cur \o SubSeq(s, 1, First(ends) - 1)>>
             \o re_split(lstrip(SubSeq(s, First(ends) + 1, Len(s))), <<>>)

\* the pieces of q, stripped, without the blank ones
RECURSIVE StripAll(_)
StripAll(q) ==
    IF q = <<>> THEN <<>>
    ELSE IF strip(Head(q)) = <<>> THEN StripAll(Tail(q))
    ELSE <<strip(Head(q))>> \o StripAll(Tail(q))

\* DocumentService._split_sentences
split_sentences(text) == StripAll(re_split(text, <<>>))

\* s[i:i + size] for i in range(0, len(s), step), the blank windows left out;
\* range() with a step below zero is empty
RECURSIVE Windows(_, _, _, _)
Windows(s, i, size, step) ==
    IF step <= 0 \/ i > Len(s) THEN <<>>
    ELSE LET hi == IF i + size - 1 > Len(s) THEN Len(s) ELSE i + size - 1
             w == strip(SubSeq(s, i, hi))
         IN  (IF w = <<>> THEN <<>> ELSE <<w>>)
             \o Windows(s, i + step, size, step)

\* the overlap carried into the next chunk: current_chunk[-chunk_overlap:]
Carry(cur, chunk_overlap) ==
    IF chunk_overlap > 0 /\ Len(cur) > chunk_overlap
    THEN LastN(cur, chunk_overlap) ELSE <<>>

\* one turn of the loop of _split_long_paragraph; range() with a step of
\* zero raises ValueError
LongStep(st, sentence, chunk_size, chunk_overlap) ==
    IF st.raised THEN st
    ELSE IF Len(st.cur) + Len(sentence) > chunk_size
    THEN IF st.cur # <<>>
         THEN [st EXCEPT
                 !.chunks = Append(@, strip(st.cur)),
                 !.cur = Carry(st.cur, chunk_overlap) \o sentence]
         ELSE IF Len(sentence) > chunk_size
         THEN IF chunk_size - chunk_overlap = 0
              THEN [st EXCEPT !.raised = TRUE]
              ELSE [st EXCEPT
                      !.chunks = @ \o Windows(sentence, 1, chunk_size,
                                              chunk_size - chunk_overlap)]
         ELSE [st EXCEPT !.cur = sentence]
    ELSE [st EXCEPT !.cur = @ \o sentence]

RECURSIVE LongLoop(_, _, _, _)
LongLoop(st, sentences, chunk_size, chunk_overlap) ==
    IF sentences = <<>> THEN st
    ELSE LongLoop(LongStep(st, Head(sentences), chunk_size, chunk_overlap),
                  Tail(sentences), chunk_size, chunk_overlap)

\* the chunks a loop leaves, its last chunk added when it is not blank
Flush(st) ==
    IF strip(st.cur) # <<>> THEN Append(st.chunks, strip(st.cur))
    ELSE st.chunks

\* DocumentService._split_long_paragraph: [raised, chunks]
split_long_paragraph(paragraph, chunk_size, chunk_overlap) ==
    LET st == LongLoop([chunks |-> <<>>, cur |-> <<>>, raised |-> FALSE],
                       split_sentences(paragraph), chunk_size, chunk_overlap)
    IN  [raised |-> st.raised, chunks |-> Flush(st)]

\* one turn of the loop of split_content over the paragraphs
ParagraphStep(st, raw, chunk_size, chunk_overlap) ==
    LET paragraph == strip(raw)
    IN  IF st.raised \/ paragraph = <<>> THEN st
        ELSE IF Len(st.cur) + Len(paragraph) > chunk_size
        THEN IF st.cur # <<>>
             THEN [st EXCEPT
                     !.chunks = Append(@, strip(st.cur)),
                     !.cur = IF chunk_overlap > 0 /\ Len(st.cur) > chunk_overlap
                             THEN LastN(st.cur, chunk_overlap) \o <<"\n">>
                                  \o paragraph
                             ELSE paragraph]
             ELSE LET sub == split_long_paragraph(paragraph, chunk_size,
                                                  chunk_overlap)
                      n == Len(sub.chunks)
                  IN  IF sub.raised THEN [st EXCEPT !.raised = TRUE]
                      ELSE [st EXCEPT
                              !.chunks = @ \o SubSeq(sub.chunks, 1, n - 1),
                              !.cur = IF n > 0 THEN sub.chunks[n] ELSE <<>>]
        ELSE [st EXCEPT
                !.cur = IF @ # <<>> THEN @ \o <<"\n", "\n">> \o paragraph
                        ELSE paragraph]

RECURSIVE ParagraphLoop(_, _, _, _)
ParagraphLoop(st, paragraphs, chunk_size, chunk_overlap) ==
    IF paragraphs = <<>> THEN st
    ELSE ParagraphLoop(
           ParagraphStep(st, Head(paragraphs), chunk_size, chunk_overlap),
           Tail(paragraphs), chunk_size, chunk_overlap)

LongEnough(chunk) == Len(strip(chunk)) > MIN_CHUNK_LENGTH

\* DocumentService.split_content: [raised, chunks]
split_content(content, chunk_size, chunk_overlap) ==
    IF strip(content) = <<>> THEN [raised |-> FALSE, chunks |-> <<>>]
    ELSE LET st == ParagraphLoop(
                     [chunks |-> <<>>, cur |-> <<>>, raised |-> FALSE],
                     split_paragraphs(content, <<>>), chunk_size,
                     chunk_overlap)
         IN  [raised |-> st.raised,
              chunks |-> SelectSeq(Flush(st), LongEnough)]

\* ------------------------------------------------- chunking: the windows
MaxText == 6         \* characters of a text given to a chunking routine

\* range(0, n, step): a step of zero raises ValueError, a negative step
\* gives no value
range(n, step) ==
    IF step = 0 THEN [raised |-> TRUE, values |-> <<>>]
    ELSE IF step < 0 \/ n <= 0 THEN [raised |-> FALSE, values |-> <<>>]
    ELSE [raised |-> FALSE,
          values |-> [k \in 1..((n + step - 1) \div step) |->
                        (k - 1) * step]]

\* content[i:i + size], i counted from 0
Slice(content, i, size) ==
    SubSeq(content, i + 1,
           IF i + size > Len(content) THEN Len(content) ELSE i + size)

\* the chunking loop of process_and_embed_document_task: a window every
\* chunk_size - chunk_overlap characters, the blank windows left out
window_chunks(content, chunk_size, chunk_overlap) ==
    LET r == range(Len(content), chunk_size - chunk_overlap)
        all == [k \in 1..Len(r.values) |->
                  Slice(content, r.values[k], chunk_size)]
        chunks == SelectSeq(all, LAMBDA c : strip(c) # <<>>)
    IN  [value_error |-> r.raised, starts |-> r.values, chunks |-> chunks,
         no_content |-> ~r.raised /\ chunks = <<>>]

\* the texts and chunk sizes the chunking loop of the task is run on
WindowTexts ==
    {[i \in 1..n |-> "a"] : n \in {0, 1, CHUNK_OVERLAP + MaxText}}
    \cup {[i \in 1..3 |-> " "]}

WindowSizes ==
    {CHUNK_OVERLAP - 1, CHUNK_OVERLAP, CHUNK_OVERLAP + 1, CHUNK_OVERLAP + 2,
     CHUNK_SIZE}

\* the paragraphs, chunk sizes and overlaps _split_long_paragraph is run on
Paragraphs ==
    {[i \in 1..n |-> "a"] : n \in {0, 1, MaxText, 2 * MaxText}}
    \cup {[i \in 1..MaxText |-> IF i = 3 THEN "." ELSE "a"]}
    \cup {[i \in 1..3 |-> " "]}

ParagraphSizes == 1..4
ParagraphOverlaps == 0..5

\* the starts of the windows _split_long_paragraph cuts its first sentence
\* into, which it does when that sentence is longer than chunk_size
first_sentence_windows(paragraph, chunk_size, chunk_overlap) ==
    LET sentences == split_sentences(paragraph)
    IN  IF sentences # <<>> /\ Len(sentences[1]) > chunk_size
        THEN range(Len(sentences[1]), chunk_size - chunk_overlap)
        ELSE [raised |-> FALSE, values |-> <<>>]

\* ------------------------------------------------------- the vector store
MaxDocChunks == 2    \* chunks of one ingestion job

DocIds == {"d1", "d2"}
Jobs == {"j1", "j2"}

Field(n, t) == [name |-> n, dtype |-> t]

\* the fields create_collection gives the collection it creates
CreatedFields ==
    <<Field("id", "VARCHAR"), Field("doc_id", "VARCHAR"),
      Field("doc_name", "VARCHAR"), Field("chunk_content", "VARCHAR"),
      Field("vector", "FLOAT_VECTOR"), Field("source_path", "VARCHAR"),
      Field("doc_type", "VARCHAR"), Field("user_id", "VARCHAR"),
      Field("group_id", "INT64"), Field("create_at", "VARCHAR"),
      Field("update_at", "VARCHAR")>>

\* the columns insert_vector_async hands to collection.insert, in its order
InsertColumns ==
    <<Field("id", "VARCHAR"), Field("doc_id", "VARCHAR"),
      Field("doc_name", "VARCHAR"), Field("chunk_content", "VARCHAR"),
      Field("vector", "FLOAT_VECTOR"), Field("source_path", "VARCHAR"),
      Field("auther_name", "VARCHAR"), Field("user_id", "VARCHAR"),
      Field("doc_type", "VARCHAR"), Field("create_at", "VARCHAR"),
      Field("update_at", "VARCHAR")>>

\* what utility.has_collection can find: no collection (<<>>), or one that
\* was made earlier with the fields the insert names
ExistingCollections == {<<>>, InsertColumns}

\* VectorService.create_collection: a collection that exists is kept as it
\* is, else one is created
create_collection(existing) ==
    IF existing # <<>> THEN existing ELSE CreatedFields

\* collection.insert takes column data that has one column for every field,
\* each of the type of its field; anything else raises
Accepts(fields, columns) ==
    /\ Len(fields) = Len(columns)
    /\ \A i \in 1..Len(fields) : fields[i].dtype = columns[i].dtype

DocVectors(vecs, doc_id) == {v \in vecs : v.doc_id = doc_id}

\* collection.query(expr='doc_id == "<doc_id>"', output_fields=["id"])
query_ids(vecs, doc_id) == {v.id : v \in DocVectors(vecs, doc_id)}

\* collection.delete(expr='id in [<ids>]')
delete_ids(vecs, ids) == {v \in vecs : v.id \notin ids}

\* collection.insert(data) and collection.flush()
insert_entity(fields, vecs, v) ==
    IF Accepts(fields, InsertColumns) THEN vecs \cup {v} ELSE vecs

\* a job: the calls of insert_vector_async for the chunks of one document
IdleJob ==
    [pc |-> "idle", doc_id |-> "", total |-> 0, index |-> 0,
     existing_ids |-> {}, stored |-> 0, after |-> {}]

\* --------------------------------------------------------------- search
MaxHits == 3         \* hits Milvus returns for one query

\* similarity scores, in hundredths
Scores == {40, 75, 90}

\* the values of models.enums.SearchStrategy, and the names of its members
Strategies == {"knowledge_only", "web_only", "hybrid", "auto", "none"}
StrategyMembers == {"KNOWLEDGE_ONLY", "WEB_ONLY", "HYBRID", "AUTO", "NONE"}

\* a query is a sequence of words and blanks
Queries == {<<"python">>, <<"Latest", " ", "python">>}

\* str.lower() on the words and letters the model uses
Lower(w) == IF w = "Latest" THEN "latest" ELSE IF w = "A" THEN "a" ELSE w

\* dict.get(key, default): a hit is a record that may lack a key
Get(r, key, default) == IF key \in DOMAIN r THEN r[key] ELSE default

\* list.sort(key=lambda x: x.get(field, 0), reverse=True): stable, the
\* larger keys first
RECURSIVE InsertDesc(_, _, _)
InsertDesc(x, sorted, field) ==
    IF sorted = <<>> THEN <<x>>
    ELSE IF Get(Head(sorted), field, 0) >= Get(x, field, 0)
    THEN <<Head(sorted)>> \o InsertDesc(x, Tail(sorted), field)
    ELSE <<x>> \o sorted

RECURSIVE SortDesc(_, _)
SortDesc(q, field) ==
    IF q = <<>> THEN <<>>
    ELSE InsertDesc(q[Len(q)], SortDesc(SubSeq(q, 1, Len(q) - 1), field),
                    field)

\* q[:n]
Take(q, n) ==
    IF n >= 0 THEN SubSeq(q, 1, IF n < Len(q) THEN n ELSE Len(q))
    ELSE SubSeq(q, 1, IF Len(q) + n > 0 THEN Len(q) + n ELSE 0)

RECURSIVE SumScores(_)
SumScores(q) ==
    IF q = <<>> THEN 0 ELSE Get(Head(q), "score", 0) + SumScores(Tail(q))

RECURSIVE MaxScore(_)
MaxScore(q) ==
    IF Len(q) = 1 THEN Get(q[1], "score", 0)
    ELSE LET m == MaxScore(Tail(q))
             h == Get(Head(q), "score", 0)
         IN  IF h >= m THEN h ELSE m

\* what Milvus answers to collection.search: an exception, or up to MaxHits
\* hits, the most similar first
MilvusHit(score) == [score |-> score, content |-> <<"k">>]

SortedScores ==
    {g \in UNION {[1..m -> Scores] : m \in 0..MaxHits} :
        \A i \in 1..(Len(g) - 1) : g[i] >= g[i + 1]}

MilvusAnswers ==
    {[raises |-> TRUE, hits |-> <<>>]} \cup
    {[raises |-> FALSE, hits |-> [i \in 1..Len(g) |-> MilvusHit(g[i])]] :
        g \in SortedScores}

\* VectorService.search_vectors_async: the hits below the threshold are
\* dropped and the rest sorted by score
search_vectors(answer, similarity_threshold) ==
    SortDesc(SelectSeq(answer.hits,
                       LAMBDA h : ~(h.score < similarity_threshold)),
             "score")

\* KnowledgeService.search: a blank query and any exception give no hit
knowledge_search(query, answer, similarity_threshold) ==
    IF strip(query) = <<>> \/ answer.raises THEN <<>>
    ELSE search_vectors(answer, similarity_threshold)

\* the web-search configuration and what the search API does when called
WebHit == [content |-> <<"w">>]

WebEnvs ==
    {[enabled |-> FALSE, api_key |-> TRUE, api |-> "200", items |-> <<>>],
     [enabled |-> TRUE, api_key |-> FALSE, api |-> "200", items |-> <<>>],
     [enabled |-> TRUE, api_key |-> TRUE, api |-> "raises", items |-> <<>>],
     [enabled |-> TRUE, api_key |-> TRUE, api |-> "500", items |-> <<>>],
     [enabled |-> TRUE, api_key |-> TRUE, api |-> "200", items |-> <<>>],
     [enabled |-> TRUE, api_key |-> TRUE, api |-> "200",
      items |-> <<WebHit>>],
     [enabled |-> TRUE, api_key |-> TRUE, api |-> "200",
      items |-> <<WebHit, WebHit>>]}

\* the web environments the searches are run in: disabled, without key,
\* a failing API and an API that finds a page
SearchEnvs ==
    {e \in WebEnvs :
        /\ e.api # "500"
        /\ (e.enabled /\ e.api_key /\ e.api = "200") => Len(e.items) = 1}

\* SearchService._search_with_bocha_api: an exception and a status other
\* than 200 give no hit; the hits carry no score
search_with_bocha_api(env, max_results) ==
    IF env.api # "200" THEN <<>> ELSE Take(env.items, max_results)

\* SearchService._get_mock_search_results
mock_results ==
    <<[content |-> <<"mock1">>, score |-> 90],
      [content |-> <<"mock2">>, score |-> 85],
      [content |-> <<"mock3">>, score |-> 80]>>

get_mock_search_results(max_results) == Take(mock_results, max_results)

\* SearchService.web_search
web_search(query, max_results, env) ==
    IF ~env.enabled THEN <<>>
    ELSE IF strip(query) = <<>> THEN <<>>
    ELSE IF env.api_key THEN search_with_bocha_api(env, max_results)
    ELSE get_mock_search_results(max_results)

\* f"{x:.2f}" of the mean of the scores, in hundredths
Mean(q) == (2 * SumScores(q) + Len(q)) \div (2 * Len(q))

\* a decision that counts the calls made before
quality_decision_mut(knowledge_results) ==
    [raised |-> FALSE,
     need_web_search |->
        \/ Len(knowledge_results) < 3
        \/ MaxScore(knowledge_results) < 80
        \/ SumScores(knowledge_results) < 70 * Len(knowledge_results),
     reasoning |-> <<"quality", search.service, Mean(knowledge_results),
                     MaxScore(knowledge_results), Len(knowledge_results)>>]

\* the decision under strategy auto when the knowledge base gave hits: too
\* few of them, a best score below 0.8 or a mean score below 0.7 ask for the
\* web search
quality_decision(knowledge_results) ==
    [raised |-> FALSE,
     need_web_search |->
        \/ Len(knowledge_results) < 3
        \/ MaxScore(knowledge_results) < 80
        \/ SumScores(knowledge_results) < 70 * Len(knowledge_results),
     reasoning |-> <<"quality", Mean(knowledge_results),
                     MaxScore(knowledge_results), Len(knowledge_results)>>]

\* a decision that weighs the knowledge hits under strategy hybrid too
search_decision_mut(strategy, knowledge_results, use_web_search) ==
    IF knowledge_results # <<>>
    THEN IF strategy \in {"auto", "hybrid"}
         THEN quality_decision(knowledge_results)
         ELSE [raised |-> TRUE, need_web_search |-> FALSE,
               reasoning |-> <<"failed", "WEB_FIRST">>]
    ELSE [raised |-> FALSE, need_web_search |-> use_web_search,
          reasoning |-> <<"no_results">>]

\* the decision of ChatService.intelligent_search on the web search; the
\* third branch reads SearchStrategy.WEB_FIRST, and reading a member the
\* enum does not have raises AttributeError
search_decision(strategy, knowledge_results, use_web_search) ==
    IF knowledge_results # <<>>
    THEN IF strategy = "auto"
         THEN quality_decision(knowledge_results)
         ELSE IF strategy = "hybrid"
         THEN [raised |-> FALSE, need_web_search |-> TRUE,
               reasoning |-> <<"hybrid">>]
         ELSE IF "WEB_FIRST" \notin StrategyMembers
         THEN [raised |-> TRUE, need_web_search |-> FALSE,
               reasoning |-> <<"failed", "WEB_FIRST">>]
         ELSE IF strategy = "web_first"
         THEN [raised |-> FALSE, need_web_search |-> TRUE,
               reasoning |-> <<"web_first">>]
         ELSE [raised |-> FALSE,
               need_web_search |-> SumScores(knowledge_results)
                                     < 60 * Len(knowledge_results),
               reasoning |-> <<"knowledge_first",
                               Mean(knowledge_results)>>]
    ELSE [raised |-> FALSE, need_web_search |-> use_web_search,
          reasoning |-> <<"no_results">>]

\* a search that gives up its knowledge hits when the web search gave none
intelligent_search_mut(query, strategy, max_results, use_knowledge_base, use_web_search, answer, env) ==
    LET knowledge_results ==
            IF use_knowledge_base THEN knowledge_search(query, answer, 70)
            ELSE <<>>
        d == search_decision(strategy, knowledge_results, use_web_search)
        asked == ~d.raised /\ d.need_web_search /\ use_web_search
        web_results == IF asked THEN web_search(query, max_results, env)
                       ELSE <<>>
    IN  [knowledge_queried |-> use_knowledge_base,
         web_queried |-> asked,
         knowledge_results |-> IF d.raised \/ (asked /\ web_results = <<>>)
                               THEN <<>> ELSE knowledge_results,
         web_results |-> web_results,
         decision_reasoning |-> d.reasoning]

\* ChatService.intelligent_search: the dict it returns and the gateways it
\* called
intelligent_search(query, strategy, max_results, use_knowledge_base, use_web_search, answer, env) ==
    LET knowledge_results ==
            IF use_knowledge_base THEN knowledge_search(query, answer, 70)
            ELSE <<>>
        d == search_decision(strategy, knowledge_results, use_web_search)
        asked == ~d.raised /\ d.need_web_search /\ use_web_search
    IN  [knowledge_queried |-> use_knowledge_base,
         web_queried |-> asked,
         knowledge_results |-> IF d.raised THEN <<>> ELSE knowledge_results,
         web_results |-> IF asked THEN web_search(query, max_results, env)
                         ELSE <<>>,
         decision_reasoning |-> d.reasoning]

\* the arguments every caller of intelligent_search leaves at their defaults
DEFAULT_USE_KNOWLEDGE_BASE == TRUE
DEFAULT_USE_WEB_SEARCH == TRUE

\* max_results as chat_stream leaves it
DEFAULT_MAX_RESULTS == 5

NoSearch ==
    [service |-> "", query |-> <<>>, strategy |-> "", max_results |-> 0,
     answer |-> [raises |-> FALSE, hits |-> <<>>],
     env |-> [enabled |-> FALSE, api_key |-> FALSE, api |-> "200",
              items |-> <<>>],
     out |-> <<>>, repeated |-> FALSE, same_outcome |-> FALSE]

NoSearchStats ==
    [total_searches |-> 0, knowledge_only |-> 0, web_only |-> 0,
     hybrid |-> 0, failed |-> 0]

NoFusion == [calls |-> 0]
NoChunking == [calls |-> 0]

\* ------------------------------------------------- the knowledge base
KbDocIds == {"d1", "d2"}
NoUser == ""                          \* user_id = None
NoGroup == ""                         \* group_id = None
DEFAULT_USER_ID == "admin"            \* settings.default_user_id
Users == {"u1", DEFAULT_USER_ID}
RequestUsers == Users \cup {NoUser}
RequestGroups == {NoGroup, "g1"}
TopKs == {1, 10}
Thresholds == {70, 80}

\* the similarity of the chunk of a document to the query
Similarity(doc_id) == IF doc_id = "d1" THEN 90 ELSE 75

\* no KbDocument row
NoRow == [exists |-> FALSE, user_id |-> NoUser, is_active |-> FALSE]

\* the entity insert_vector_async stores for the chunk of a document: its
\* columns have no group_id
Entity(doc_id, user_id) ==
    [id |-> doc_id, doc_id |-> doc_id, user_id |-> user_id,
     group_id |-> NoGroup, score |-> Similarity(doc_id)]

\* the filter expression of search_vectors_async: a condition on user_id
\* when one is given, one on group_id when one is given
Matches(e, user_id, group_id) ==
    /\ user_id # NoUser => e.user_id = user_id
    /\ group_id # NoGroup => e.group_id = group_id

\* collection.search(limit=top_k, expr=filter_expr): the best top_k of the
\* entities the expression selects
collection_search(entities, top_k, user_id, group_id) ==
    Take(SortDesc(SelectSeq(entities,
                            LAMBDA e : Matches(e, user_id, group_id)),
                  "score"),
         top_k)

\* VectorService.search_vectors_async: no hit when Milvus is not connected
search_vectors_async(entities, connected, top_k, similarity_threshold, user_id, group_id) ==
    IF ~connected THEN <<>>
    ELSE search_vectors(
           [raises |-> FALSE,
            hits |-> collection_search(entities, top_k, user_id, group_id)],
           similarity_threshold)

\* VectorService.delete_vectors_by_doc_id: the entities of the document are
\* deleted, or Milvus is not connected or raises and the call returns False
delete_vectors_by_doc_id(entities, doc_id, milvus) ==
    IF milvus = "ok"
    THEN [result |-> TRUE,
          entities |-> SelectSeq(entities, LAMBDA e : e.doc_id # doc_id)]
    ELSE [result |-> FALSE, entities |-> entities]

\* delete_document: the active row of the user is soft-deleted and the
\* vectors are deleted; the response does not depend on the vector deletion
delete_document(k, doc_id, request_user_id, milvus) ==
    LET user_id == IF request_user_id # NoUser THEN request_user_id
                   ELSE DEFAULT_USER_ID
        row == k.rows[doc_id]
        found == row.exists /\ row.user_id = user_id /\ row.is_active
        del == delete_vectors_by_doc_id(k.entities, doc_id, milvus)
    IN  IF ~found THEN [success |-> FALSE, rows |-> k.rows,
                        entities |-> k.entities]
        ELSE [success |-> TRUE,
              rows |-> [k.rows EXCEPT ![doc_id].is_active = FALSE],
              entities |-> del.entities]

NoKb ==
    [rows |-> [d \in KbDocIds |-> NoRow], entities |-> <<>>,
     deleted |-> {},
     last |-> [op |-> "none", user_id |-> NoUser, doc_id |-> "",
               results |-> <<>>, success |-> FALSE, deleted |-> {}]]

\* --------------------------------------------------------------- fusion
MaxFused == 2        \* hits in each list given to _merge_and_rank_results

KNOWLEDGE_WEIGHT == 13    \* final score of a knowledge hit: score * 1.3
WEB_WEIGHT == 10          \* final score of a web hit: score * 1.0
CONTENT_KEY_LENGTH == 100
DIVERSITY_MIN == 3        \* lists no longer than this are not de-duplicated
DIVERSITY_LIMIT == 15

\* contents of hits: two that differ in case and blanks only, and two that
\* differ after their first 100 characters only
Contents ==
    {<<"a">>, <<"A", " ">>,
     [i \in 1..(CONTENT_KEY_LENGTH + 1) |->
        IF i <= CONTENT_KEY_LENGTH THEN "a" ELSE "b"],
     [i \in 1..(CONTENT_KEY_LENGTH + 1) |->
        IF i <= CONTENT_KEY_LENGTH THEN "a" ELSE "c"]}

FusionScores == {50, 90}

\* the hits of the knowledge base carry a score; those of the search API
\* carry none, the mock results do
KnowledgeHits ==
    {[score |-> n, content |-> c] :
        n \in FusionScores, c \in {d \in Contents : Head(d) = "a"}}

WebHits ==
    {[content |-> c] : c \in Contents} \cup
    {[content |-> <<"a">>, score |-> 90]}

Lists(hits, n) == UNION {[1..m -> hits] : m \in 0..n}

\* the knowledge hits arrive sorted by score
KnowledgeLists ==
    {q \in Lists(KnowledgeHits, MaxFused) :
        \A i \in 1..(Len(q) - 1) : q[i].score >= q[i + 1].score}

WebLists == Lists(WebHits, MaxFused)

FusionMaxResults == {0, 2, 10}

\* dict.copy() with one more key
With(r, key, value) ==
    [k \in DOMAIN r \cup {key} |-> IF k = key THEN value ELSE r[k]]

\* PocketFlow._get_content_key: content[:100].strip().lower()
get_content_key(result) ==
    LET content == Get(result, "content", <<>>)
        cut == strip(Take(content, CONTENT_KEY_LENGTH))
    IN  [i \in 1..Len(cut) |-> Lower(cut[i])]

\* the loop of _optimize_diversity over results[1:]
RECURSIVE DiversityLoop(_, _, _)
DiversityLoop(results, diverse, used) ==
    IF results = <<>> THEN diverse
    ELSE LET key == get_content_key(Head(results))
             fresh == key \notin used
             kept == IF fresh THEN Append(diverse, Head(results))
                     ELSE diverse
         IN  IF Len(kept) >= DIVERSITY_LIMIT THEN kept
             ELSE DiversityLoop(Tail(results), kept,
                                IF fresh THEN used \cup {key} ELSE used)

\* PocketFlow._optimize_diversity
optimize_diversity(results) ==
    IF Len(results) <= DIVERSITY_MIN THEN results
    ELSE DiversityLoop(Tail(results), <<Head(results)>>,
                       {get_content_key(Head(results))})

\* the copies _merge_and_rank_results makes of the hits of one source
Weighted(results, weight, source_type) ==
    [i \in 1..Len(results) |->
        With(With(results[i], "final_score",
                  Get(results[i], "score", 0) * weight),
             "source_type", source_type)]

\* the fused list, never cut and never sorted
merge_and_rank_results_mut(knowledge_results, web_results, max_results) ==
    optimize_diversity(
        Weighted(knowledge_results, KNOWLEDGE_WEIGHT, "knowledge_base")
        \o Weighted(web_results, WEB_WEIGHT, "web_search"))

\* PocketFlow._merge_and_rank_results
merge_and_rank_results(knowledge_results, web_results, max_results) ==
    LET all_results ==
            Weighted(knowledge_results, KNOWLEDGE_WEIGHT, "knowledge_base")
            \o Weighted(web_results, WEB_WEIGHT, "web_search")
    IN  Take(optimize_diversity(SortDesc(all_results, "final_score")),
             max_results)

\* ------------------------------------------------------ ingestion tasks
MaxRuns == 2         \* executions of a task, and submissions to the endpoints

DocumentIds == {1}                    \* rows of table documents
MissingDocumentId == 2                \* an id no row has
KbDocIdSeq == <<"k1", "k2", "k3">>    \* successive values of uuid.uuid4().hex

Repeat(c, n) == [i \in 1..n |-> c]

\* what the file of a document can be
Files ==
    {[exists |-> FALSE, file_type |-> "text/plain", text |-> <<>>],
     [exists |-> TRUE, file_type |-> "video/mp4", text |-> Repeat("a", 21)],
     [exists |-> TRUE, file_type |-> "text/plain", text |-> <<>>],
     [exists |-> TRUE, file_type |-> "text/plain", text |-> <<" ", "\n">>],
     [exists |-> TRUE, file_type |-> "text/plain",
      text |-> <<"h", "e", "l", "l", "o">>],
     [exists |-> TRUE, file_type |-> "text/plain", text |-> Repeat("a", 21)]}

\* the file types DocumentService has an extractor for
supported_types ==
    {"application/pdf", "application/msword",
     "application/vnd.openxmlformats-officedocument.wordprocessingml.document",
     "application/vnd.ms-powerpoint",
     "application/vnd.openxmlformats-officedocument.presentationml.presentation",
     "text/plain", "text/markdown", "image/jpeg", "image/png", "image/gif"}

\* DocumentService.extract_content: [raised, why, content]; a missing file,
\* a type without extractor and a blank text raise
extract_content(file) ==
    IF ~file.exists
    THEN [raised |-> TRUE, why |-> "missing", content |-> <<>>]
    ELSE IF file.file_type \notin supported_types
    THEN [raised |-> TRUE, why |-> "unsupported", content |-> <<>>]
    ELSE IF strip(file.text) = <<>>
    THEN [raised |-> TRUE, why |-> "empty", content |-> <<>>]
    ELSE [raised |-> FALSE, why |-> "", content |-> strip(file.text)]

\* the methods class DocumentService defines
DocumentServiceMethods ==
    {"extract_content", "split_content", "process_document",
     "get_file_info", "validate_file"}

\* keyword parameters of VectorService.insert_vector
insert_vector_params ==
    {"collection_name", "vector_id", "doc_id", "doc_name", "source_path",
     "create_at", "update_at", "chunk_content", "vector", "doc_type",
     "auther_name", "user_id"}

\* keyword arguments the embedding tasks pass to insert_vector
embedding_task_insert_kwargs ==
    {"collection_name", "vector_id", "embedding", "metadata"}

\* parameters of process_and_embed_document_task after self; the first two
\* have no default
process_and_embed_params == <<"file_path", "filename", "user_id">>
process_and_embed_required == <<"file_path", "filename">>

\* positional arguments the processing endpoints pass to delay(): the
\* request as one dict
endpoint_delay_args == <<"task_request.dict()">>

\* Celery checks the arguments of delay() against the signature of the task
\* and raises TypeError when they do not bind
delay_binds(args, required, params) ==
    Len(args) >= Len(required) /\ Len(args) <= Len(params)

\* the names the body of _async_process_document assigns, which makes them
\* locals of that function: reading one before its assignment raises
\* UnboundLocalError
async_process_document_locals ==
    {"db", "document_service", "embedding_service", "vector_service",
     "user_id", "content", "document", "chunk_size", "chunk_overlap",
     "chunks", "content_length", "chunk_content", "total_chunks",
     "embedded_chunks", "chunk", "embedding", "vector_id", "metadata",
     "success", "progress"}

\* a row of table documents with the defaults of its columns
NewDocument == [status |-> "pending", error_message |-> <<>>]

\* a KbDocument record as the processing endpoints create it
NewKbDocument(doc_type) ==
    [status |-> "pending", task_id |-> "", doc_type |-> doc_type,
     error_message |-> <<>>]

NoKbResponse == [endpoint |-> "", status_code |-> 0, doc_id |-> ""]

\* the executions of process_document_task for one document id
IdleRun ==
    [pc |-> "idle", runs |-> 0, state |-> "PENDING", extracted |-> "none",
     chunk_count |-> 0]

NoTaskRuns ==
    [process_document |->
        [d \in DocumentIds \cup {MissingDocumentId} |-> IdleRun],
     embeddings |-> {}, embedded |-> {}, queue |-> {},
     embed_document |-> [runs |-> 0, state |-> "PENDING"]]

\* the except clause of process_document_task: the row, when there is one,
\* is marked failed with the message of the exception
mark_failed(docs, d, e) ==
    IF d \in DOMAIN docs
    THEN [docs EXCEPT ![d] = [status |-> "failed", error_message |-> e]]
    ELSE docs

\* the rows process_document_task adds for the chunks of a document
ChunkRows(rows, d, chunks) ==
    {[id |-> Cardinality(rows) + i, document_id |-> d, chunk_index |-> i - 1,
      vector_id |-> ""] : i \in 1..Len(chunks)}

\* process_document_task after its row is marked processing: the content is
\* extracted and split, the chunk rows are stored, an embedding task is
\* dispatched for each, and the row is marked completed
process_document(docs, rows, d, file) ==
    LET ext == extract_content(file)
        sp == split_content(ext.content, CHUNK_SIZE, CHUNK_OVERLAP)
        new == ChunkRows(rows, d, sp.chunks)
    IN  IF ext.raised
        THEN [documents |-> mark_failed(docs, d, <<"extract_content">>),
              document_chunks |-> rows, dispatched |-> {},
              state |-> "FAILURE", extracted |-> ext.why, chunk_count |-> 0]
        ELSE IF sp.raised
        THEN [documents |-> mark_failed(docs, d, <<"split_content">>),
              document_chunks |-> rows, dispatched |-> {},
              state |-> "FAILURE", extracted |-> "text", chunk_count |-> 0]
        ELSE [documents |-> [docs EXCEPT ![d].status = "completed"],
              document_chunks |-> rows \cup new,
              dispatched |-> {c.id : c \in new},
              state |-> "SUCCESS", extracted |-> "text",
              chunk_count |-> Len(sp.chunks)]

\* whether generate_embedding_task gets its vector stored: the embedding was
\* generated, the call of insert_vector binds, and the insert is accepted
embedding_stored(fields, embed_ok) ==
    /\ embed_ok
    /\ Binds(embedding_task_insert_kwargs, insert_vector_params)
    /\ Accepts(create_collection(fields), InsertColumns)

\* process_and_embed_document_task: the Celery state it ends in and the rows
\* of table documents it leaves
process_and_embed_document(docs, file) ==
    IF "user_id" \in async_process_document_locals
       \/ "extract_text_from_file" \notin DocumentServiceMethods
       \/ ~file.exists \/ strip(file.text) = <<>>
    THEN \* raised before the document row exists
         [state |-> "FAILURE", documents |-> docs]
    ELSE LET id == Cardinality(DOMAIN docs) + 1
             chunks == Windows(file.text, 1, CHUNK_SIZE,
                               CHUNK_SIZE - CHUNK_OVERLAP)
             ok == /\ chunks # <<>>
                   /\ Binds(embedding_task_insert_kwargs, insert_vector_params)
         IN  [state |-> IF ok THEN "SUCCESS" ELSE "FAILURE",
              documents |->
                [x \in DOMAIN docs \cup {id} |->
                   IF x = id
                   THEN [status |-> IF ok THEN "completed" ELSE "failed",
                         error_message |-> <<>>]
                   ELSE docs[x]]]

\* the processing endpoints after validation: the record is committed as
\* pending, then the task is submitted; when delay() raises, the handler
\* answers 500 and the committed record stays
submit(kb, queue, endpoint, doc_type) ==
    LET doc_id == KbDocIdSeq[Cardinality(DOMAIN kb) + 1]
        stored == [x \in DOMAIN kb \cup {doc_id} |->
                     IF x = doc_id THEN NewKbDocument(doc_type) ELSE kb[x]]
        sent == delay_binds(endpoint_delay_args, process_and_embed_required,
                            process_and_embed_params)
    IN  [kb_documents |->
            IF sent /\ endpoint = "file_process"
            THEN [stored EXCEPT ![doc_id].task_id = "task"] ELSE stored,
         queue |-> IF sent THEN queue \cup {doc_id} ELSE queue,
         response |-> [endpoint |-> endpoint,
                       status_code |-> IF sent THEN 200 ELSE 500,
                       doc_id |-> doc_id]]

NoCall ==
    [op |-> "none", session_id |-> NoSession, user_message |-> <<>>,
     response |-> <<>>, before |-> {}]

Writers == {"w1", "w2"}
IdleWriter ==
    [pc |-> "idle", session_id |-> NoSession, user_message |-> <<>>,
     assistant_message |-> <<>>, next_sequence |-> 0]

Init ==
    /\ active_streams = [x \in {} |-> [cancelled |-> FALSE]]
    /\ streams = [r \in RequestIds |-> IdleStream]
    /\ stop_result = [request_id |-> "", status_code |-> 0]
    /\ sessions = [x \in {"s1"} |-> [title |-> TEMP_TITLE]]
    /\ messages = {}
    /\ next_message_id = 1
    /\ cache = [x \in SessionIds |-> <<>>]
    /\ clock = 0
    /\ writers = [w \in Writers |-> IdleWriter]
    /\ cleanups = [r \in RequestIds |-> 0]
    /\ stop_mark = [r \in RequestIds |->
                       [set |-> FALSE, units |-> 0, fetched |-> 0]]
    /\ used_seq = {}
    /\ appended = [x \in SessionIds |-> 0]
    /\ deleted = FALSE
    /\ calls = 0
    /\ last_call = NoCall
    /\ collection_fields = <<>>
    /\ vectors = {}
    /\ jobs = [j \in Jobs |-> IdleJob]
    /\ kb_documents = [x \in {} |-> NewKbDocument("file")]
    /\ kb_response = NoKbResponse
    /\ documents = [d \in DocumentIds |-> NewDocument]
    /\ document_chunks = {}
    /\ task_runs = NoTaskRuns
    /\ search = NoSearch
    /\ search_stats = NoSearchStats
    /\ fusion = NoFusion
    /\ chunking = NoChunking
    /\ kbase = NoKb

Next ==
    \/ \E req \in ChatRequests : ChatStream(req)
    \/ \E r \in RequestIds : GenPrologue(r)
    \/ \E r \in RequestIds : GenSetup(r)
    \/ \E r \in RequestIds : GenGenerate(r)
    \/ \E r \in RequestIds : GenComplete(r)
    \/ \E r \in RequestIds : GenFinally(r)
    \/ \E id \in RequestIds \cup {UnknownRequestId} : StopStream(id)

Spec == Init /\ [][Next]_vars

\* ------------------------------------------- the history store, directly
\* The operations of the conversation history, each called on its own and
\* run to its end before the next one starts.
Store(d) ==
    /\ sessions' = d.sessions
    /\ messages' = d.messages
    /\ next_message_id' = d.next_message_id
    /\ cache' = d.cache
    /\ Record(d)

\* get_shanghai_time() moves on
Tick ==
    /\ clock < MaxClock
    /\ clock' = clock + 1
    /\ UNCHANGED <<ingest_vars, search_vars>>
    /\ UNCHANGED <<stream_vars, store_vars, writers, history_vars>>

SaveConversationHistory(sid, user_message, assistant_message, ks, ws) ==
    /\ calls < MaxCalls
    /\ \E d \in save_conversation_history(DB, sid, user_message,
                                          assistant_message, ks, ws) :
         Store(d)
    /\ calls' = calls + 1
    /\ last_call' = [op |-> "save_conversation_history", session_id |-> sid,
                     user_message |-> user_message,
                     response |-> assistant_message, before |-> messages]
    /\ UNCHANGED <<ingest_vars, search_vars>>
    /\ UNCHANGED <<stream_vars, clock, writers, deleted>>

\* chat_stream calls it for the session it has validated
HandleStreamInterruption(sid, user_message, partial_response) ==
    /\ calls < MaxCalls
    /\ sid \in DOMAIN sessions
    /\ \E d \in handle_stream_interruption(DB, sid, user_message,
                                           partial_response) :
         Store(d)
    /\ calls' = calls + 1
    /\ last_call' = [op |-> "handle_stream_interruption", session_id |-> sid,
                     user_message |-> user_message,
                     response |-> partial_response, before |-> messages]
    /\ UNCHANGED <<ingest_vars, search_vars>>
    /\ UNCHANGED <<stream_vars, clock, writers, deleted>>

\* the delete_chat_message endpoint: the row is deleted physically; an
\* unknown message id is answered with 404 and changes nothing
DeleteChatMessage(message_id) ==
    /\ calls < MaxCalls
    /\ \E m \in messages :
         /\ m.id = message_id
         /\ messages' = messages \ {m}
    /\ deleted' = TRUE
    /\ calls' = calls + 1
    /\ last_call' = [op |-> "delete_chat_message", session_id |-> NoSession,
                     user_message |-> <<>>, response |-> <<>>,
                     before |-> messages]
    /\ UNCHANGED <<ingest_vars, search_vars>>
    /\ UNCHANGED <<stream_vars, sessions, next_message_id, cache, clock,
                   writers, used_seq, appended>>

NextStore ==
    \/ Tick
    \/ \E sid \in SessionIds, um \in UserMessages, am \in AssistantMessages,
          ks \in Hits :
         SaveConversationHistory(sid, um, am, ks, <<>>)
    \/ \E sid \in SessionIds, um \in UserMessages, p \in PartialResponses :
         HandleStreamInterruption(sid, um, p)
    \/ \E id \in 1..(2 * MaxCalls) : DeleteChatMessage(id)

SpecStore == Init /\ [][NextStore]_vars

\* --------------------------------------- two writers on the same database
\* Every request works on a database session of its own (get_db), and MySQL
\* runs the statements of different connections in any order.  A call of
\* save_conversation_history is two steps here: the query of the largest
\* sequence number, then the insertion of both rows with the commit and the
\* cache update.  No lock is taken and chat_messages declares no unique key
\* on (session_id, sequence_number).
ConcRead(w, sid, user_message, assistant_message) ==
    /\ calls < MaxCalls
    /\ writers[w].pc = "idle"
    /\ writers' = [writers EXCEPT
                     ![w] = [pc |-> "read", session_id |-> sid,
                             user_message |-> user_message,
                             assistant_message |-> assistant_message,
                             next_sequence |-> next_sequence(messages, sid)]]
    /\ calls' = calls + 1
    /\ UNCHANGED <<ingest_vars, search_vars>>
    /\ UNCHANGED <<stream_vars, store_vars, clock, used_seq, appended,
                   deleted, last_call>>

ConcCommit(w) ==
    /\ writers[w].pc = "read"
    /\ LET c == writers[w]
       IN  \E d \in IF c.session_id \notin DOMAIN sessions
                    THEN {DB}
                    ELSE UpdateCache(
                           CommitRows(DB, c.session_id, c.user_message,
                                      c.assistant_message, <<>>, <<>>,
                                      c.next_sequence),
                           c.session_id, c.user_message,
                           c.assistant_message) :
             Store(d)
    /\ writers' = [writers EXCEPT ![w] = IdleWriter]
    /\ UNCHANGED <<ingest_vars, search_vars>>
    /\ UNCHANGED <<stream_vars, clock, deleted, calls, last_call>>

NextConc ==
    \/ \E w \in Writers, sid \in SessionIds, um \in UserMessages,
          am \in AssistantMessages :
         ConcRead(w, sid, um, am)
    \/ \E w \in Writers : ConcCommit(w)

SpecConc == Init /\ [][NextConc]_vars

\* ------------------------------------------- ingestion into the collection
\* Each job is a worker process that stores the chunks of one document, one
\* call of insert_vector_async for each chunk.  A call is three requests to
\* Milvus: the query of the entities of the doc_id, their deletion, and the
\* insertion of the new entity; the requests of different processes
\* interleave.

\* the service opens the collection at startup
OpenCollection(existing) ==
    /\ collection_fields = <<>>
    /\ collection_fields' = create_collection(existing)
    /\ UNCHANGED <<vectors, jobs, task_vars, chat_vars, search_vars>>

\* a job starts on a document of n chunks
StartIngestion(j, doc_id, n) ==
    /\ collection_fields # <<>>
    /\ jobs[j].pc = "idle"
    /\ jobs' = [jobs EXCEPT
                  ![j] = [IdleJob EXCEPT
                            !.pc = "query", !.doc_id = doc_id, !.total = n,
                            !.index = 1,
                            !.after = {k \in Jobs : jobs[k].pc = "done"}]]
    /\ UNCHANGED <<collection_fields, vectors, task_vars,
                   chat_vars, search_vars>>

\* insert_vector_async: the entities that carry the doc_id are looked up
InsertQuery(j) ==
    /\ jobs[j].pc = "query"
    /\ LET ids == query_ids(vectors, jobs[j].doc_id)
       IN  jobs' = [jobs EXCEPT
                      ![j].existing_ids = ids,
                      ![j].pc = IF ids = {} THEN "insert" ELSE "delete"]
    /\ UNCHANGED <<collection_fields, vectors, task_vars,
                   chat_vars, search_vars>>

\* insert_vector_async: the entities found are deleted
InsertDelete(j) ==
    /\ jobs[j].pc = "delete"
    /\ vectors' = delete_ids(vectors, jobs[j].existing_ids)
    /\ jobs' = [jobs EXCEPT ![j].pc = "insert"]
    /\ UNCHANGED <<collection_fields, task_vars, chat_vars, search_vars>>

\* insert_vector_async: the entity of the chunk is inserted, or the insert
\* raises and the call returns False; the job goes on to its next chunk
InsertStore(j) ==
    /\ jobs[j].pc = "insert"
    /\ LET c == jobs[j]
           v == [id |-> <<j, c.index>>, doc_id |-> c.doc_id, job |-> j,
                 chunk_index |-> c.index]
       IN  /\ vectors' = insert_entity(collection_fields, vectors, v)
           /\ jobs' = [jobs EXCEPT
                         ![j].stored = IF vectors' # vectors THEN @ + 1 ELSE @,
                         ![j].existing_ids = {},
                         ![j].index = IF c.index < c.total THEN @ + 1 ELSE @,
                         ![j].pc = IF c.index < c.total
                                   THEN "query" ELSE "done"]
    /\ UNCHANGED <<collection_fields, task_vars, chat_vars, search_vars>>

NextVector ==
    \/ \E existing \in ExistingCollections : OpenCollection(existing)
    \/ \E j \in Jobs, doc_id \in DocIds, n \in 1..MaxDocChunks :
         StartIngestion(j, doc_id, n)
    \/ \E j \in Jobs : InsertQuery(j)
    \/ \E j \in Jobs : InsertDelete(j)
    \/ \E j \in Jobs : InsertStore(j)

SpecVector == Init /\ [][NextVector]_vars

\* ------------------------------------------------- ingestion: the tasks
\* POST /tasks/file_process
ProcessDocument(source, type_allowed) ==
    /\ Cardinality(DOMAIN kb_documents) < MaxRuns
    /\ IF source \in {"none", "both"} \/ source = "url" \/ ~type_allowed
       THEN \* HTTPException(400), and the AttributeError of DocType.URL, are
            \* caught by the handler's own except clause
            /\ kb_response' = [endpoint |-> "file_process",
                               status_code |-> 500, doc_id |-> ""]
            /\ UNCHANGED <<kb_documents, task_runs>>
       ELSE LET r == submit(kb_documents, task_runs.queue, "file_process",
                            "file")
            IN  /\ kb_documents' = r.kb_documents
                /\ task_runs' = [task_runs EXCEPT !.queue = r.queue]
                /\ kb_response' = r.response
    /\ UNCHANGED <<documents, document_chunks, vector_vars,
                   chat_vars, search_vars>>

\* POST /tasks/post_process
ProcessPostContent(content, group) ==
    /\ Cardinality(DOMAIN kb_documents) < MaxRuns
    /\ IF strip(content) = <<>>
       THEN /\ kb_response' = [endpoint |-> "post_process",
                               status_code |-> 400, doc_id |-> ""]
            /\ UNCHANGED <<kb_documents, task_runs>>
       ELSE IF group = "unknown"
       THEN /\ kb_response' = [endpoint |-> "post_process",
                               status_code |-> 404, doc_id |-> ""]
            /\ UNCHANGED <<kb_documents, task_runs>>
       ELSE LET r == submit(kb_documents, task_runs.queue, "post_process",
                            "post")
            IN  /\ kb_documents' = r.kb_documents
                /\ task_runs' = [task_runs EXCEPT !.queue = r.queue]
                /\ kb_response' = r.response
    /\ UNCHANGED <<documents, document_chunks, vector_vars,
                   chat_vars, search_vars>>

\* a worker executes process_and_embed_document_task, for a queued
\* submission q or for a direct call with a path and a file name
ProcessAndEmbedDocumentTask(q, file) ==
    /\ q \in task_runs.queue \cup {"direct"}
    /\ task_runs.embed_document.runs < MaxRuns
    /\ LET r == process_and_embed_document(documents, file)
       IN  /\ documents' = r.documents
           /\ task_runs' =
                [task_runs EXCEPT
                   !.queue = @ \ {q},
                   !.embed_document = [runs |-> @.runs + 1,
                                       state |-> r.state]]
    /\ UNCHANGED <<kb_documents, kb_response, document_chunks, vector_vars,
                   chat_vars, search_vars>>

\* an execution of process_document_task, started by delay() or by the
\* apply() of batch_process_documents_task, up to its first commit
TaskClaim(d) ==
    /\ task_runs.process_document[d].pc = "idle"
    /\ task_runs.process_document[d].runs < MaxRuns
    /\ IF d \in DOMAIN documents
       THEN /\ documents' = [documents EXCEPT ![d].status = "processing"]
            /\ task_runs' =
                 [task_runs EXCEPT
                    !.process_document[d].pc = "claimed",
                    !.process_document[d].state = "PROCESSING"]
       ELSE /\ documents' = mark_failed(documents, d, <<"missing">>)
            /\ task_runs' =
                 [task_runs EXCEPT
                    !.process_document[d] =
                       [pc |-> "idle", runs |-> @.runs + 1,
                        state |-> "FAILURE", extracted |-> "none",
                        chunk_count |-> 0]]
    /\ UNCHANGED <<kb_documents, kb_response, document_chunks, vector_vars,
                   chat_vars, search_vars>>

\* the rest of the execution, on the file the document row points to
TaskFinish(d, file) ==
    /\ task_runs.process_document[d].pc = "claimed"
    /\ LET r == process_document(documents, document_chunks, d, file)
       IN  /\ documents' = r.documents
           /\ document_chunks' = r.document_chunks
           /\ task_runs' =
                [task_runs EXCEPT
                   !.process_document[d] =
                      [pc |-> "idle", runs |-> @.runs + 1,
                       state |-> r.state, extracted |-> r.extracted,
                       chunk_count |-> r.chunk_count],
                   !.embeddings = @ \cup r.dispatched]
    /\ UNCHANGED <<kb_documents, kb_response, vector_vars,
                   chat_vars, search_vars>>

\* a worker executes generate_embedding_task for a dispatched chunk
GenerateEmbeddingTask(chunk_id, embed_ok) ==
    /\ chunk_id \in task_runs.embeddings
    /\ LET stored == embedding_stored(collection_fields, embed_ok)
           chunk == CHOOSE c \in document_chunks : c.id = chunk_id
           vid == <<"chunk", chunk_id>>
           v == [id |-> vid, doc_id |-> chunk.document_id,
                 job |-> "generate_embedding",
                 chunk_index |-> chunk.chunk_index]
       IN  /\ document_chunks' =
                IF stored
                THEN {IF c.id = chunk_id THEN [c EXCEPT !.vector_id = vid]
                      ELSE c : c \in document_chunks}
                ELSE document_chunks
           /\ vectors' =
                IF stored
                THEN insert_entity(create_collection(collection_fields),
                                   delete_ids(vectors,
                                     query_ids(vectors, chunk.document_id)),
                                   v)
                ELSE vectors
           /\ collection_fields' =
                IF stored THEN create_collection(collection_fields)
                ELSE collection_fields
    /\ task_runs' = [task_runs EXCEPT !.embeddings = @ \ {chunk_id},
                                      !.embedded = @ \cup {chunk_id}]
    /\ UNCHANGED <<kb_documents, kb_response, documents, jobs,
                   chat_vars, search_vars>>

\* what a worker can be asked to run process_and_embed_document_task for
Submissions == {KbDocIdSeq[i] : i \in 1..Len(KbDocIdSeq)} \cup {"direct"}

\* the ids of the chunk rows: a file of Files gives at most one chunk a run
ChunkIds == 1..MaxRuns

PostContents == {<<>>, <<" ">>, <<"h", "e", "l", "l", "o">>}

NextIngest ==
    \/ \E source \in {"none", "both", "file", "url"},
          type_allowed \in BOOLEAN : ProcessDocument(source, type_allowed)
    \/ \E content \in PostContents, group \in {"none", "known", "unknown"} :
         ProcessPostContent(content, group)
    \/ \E q \in Submissions, file \in Files :
         ProcessAndEmbedDocumentTask(q, file)
    \/ \E d \in DocumentIds \cup {MissingDocumentId} : TaskClaim(d)
    \/ \E d \in DocumentIds, file \in Files : TaskFinish(d, file)
    \/ \E chunk_id \in ChunkIds, embed_ok \in BOOLEAN :
         GenerateEmbeddingTask(chunk_id, embed_ok)

SpecIngest == Init /\ [][NextIngest]_vars

\* ------------------------------------------------- search: ChatService
\* a call of ChatService.intelligent_search as chat_stream makes it
IntelligentSearch(query, strategy, answer, env) ==
    LET out == intelligent_search(query, strategy, DEFAULT_MAX_RESULTS,
                                  DEFAULT_USE_KNOWLEDGE_BASE,
                                  DEFAULT_USE_WEB_SEARCH, answer, env)
        repeated == /\ search.service = "ChatService"
                    /\ search.query = query
                    /\ search.strategy = strategy
                    /\ search.answer = answer
                    /\ search.env = env
    IN  /\ search' =
             [service |-> "ChatService", query |-> query,
              strategy |-> strategy, max_results |-> DEFAULT_MAX_RESULTS,
              answer |-> answer, env |-> env, out |-> out,
              repeated |-> repeated,
              same_outcome |-> repeated /\ search.out = out]
        /\ UNCHANGED <<search_stats, fusion, chunking, kbase, ingest_vars,
                       chat_vars>>

NextSearch ==
    \E query \in Queries, strategy \in Strategies, answer \in MilvusAnswers,
       env \in SearchEnvs : IntelligentSearch(query, strategy, answer, env)

SpecSearch == Init /\ [][NextSearch]_vars

\* ----------------------------------------------- search: SearchService
\* the queries and the values of max_results web_search is called with
WebQueries == Queries \cup {<<" ">>}
WebMaxResults == {0, 1, 2, 3, 5, 10}

\* a call of SearchService.web_search
WebSearch(query, max_results, env) ==
    /\ search' =
         [service |-> "SearchService", query |-> query, strategy |-> "",
          max_results |-> max_results,
          answer |-> [raises |-> FALSE, hits |-> <<>>], env |-> env,
          out |-> [web_results |-> web_search(query, max_results, env)],
          repeated |-> FALSE, same_outcome |-> FALSE]
    /\ UNCHANGED <<search_stats, fusion, chunking, kbase, ingest_vars,
                   chat_vars>>

NextWeb ==
    \E query \in WebQueries, max_results \in WebMaxResults, env \in WebEnvs :
        WebSearch(query, max_results, env)

SpecWeb == Init /\ [][NextWeb]_vars

\* --------------------------------------------------- search: the fusion
\* a call of PocketFlow._merge_and_rank_results
MergeAndRankResults ==
    /\ fusion.calls = 0
    /\ \E knowledge_results \in KnowledgeLists, web_results \in WebLists,
          max_results \in FusionMaxResults :
         fusion' =
           [calls |-> 1, knowledge_results |-> knowledge_results,
            web_results |-> web_results, max_results |-> max_results,
            out |-> merge_and_rank_results(knowledge_results, web_results,
                                           max_results)]
    /\ UNCHANGED <<search, search_stats, chunking, kbase, ingest_vars,
                   chat_vars>>

NextFuse == MergeAndRankResults

SpecFuse == Init /\ [][NextFuse]_vars

\* ------------------------------------------------ chunking: the routines
\* the chunking loop of process_and_embed_document_task on a text; the
\* overlap is fixed in the task
WindowChunks ==
    /\ chunking.calls = 0
    /\ \E content \in WindowTexts, chunk_size \in WindowSizes :
         LET r == window_chunks(content, chunk_size, CHUNK_OVERLAP)
         IN  chunking' =
               [calls |-> 1, routine |-> "window_chunks",
                text |-> content, chunk_size |-> chunk_size,
                chunk_overlap |-> CHUNK_OVERLAP,
                value_error |-> r.value_error, starts |-> r.starts,
                chunks |-> r.chunks]
    /\ UNCHANGED <<search, search_stats, fusion, kbase, ingest_vars,
                   chat_vars>>

\* a call of DocumentService._split_long_paragraph
SplitLongParagraph ==
    /\ chunking.calls = 0
    /\ \E paragraph \in Paragraphs, chunk_size \in ParagraphSizes,
          chunk_overlap \in ParagraphOverlaps :
         LET r == split_long_paragraph(paragraph, chunk_size, chunk_overlap)
             w == first_sentence_windows(paragraph, chunk_size,
                                         chunk_overlap)
         IN  chunking' =
               [calls |-> 1, routine |-> "split_long_paragraph",
                text |-> paragraph, chunk_size |-> chunk_size,
                chunk_overlap |-> chunk_overlap,
                value_error |-> r.raised, starts |-> w.values,
                chunks |-> r.chunks]
    /\ UNCHANGED <<search, search_stats, fusion, kbase, ingest_vars,
                   chat_vars>>

\* the paragraphs, texts, chunk sizes and overlaps split_content is run on
ContentParagraphs ==
    {Repeat("a", 5), Repeat("a", 25), Repeat("b", 45), Repeat("b", 70),
     Repeat("c", 30) \o <<".", " ">> \o Repeat("d", 30), <<" ">>}

Contents2 == {p \o <<"\n", "\n">> \o q : p, q \in ContentParagraphs}
ContentTexts == ContentParagraphs \cup Contents2
ContentSizes == {50, 60}
ContentOverlaps == {0, 10}

\* a call of DocumentService.split_content
SplitContent ==
    /\ chunking.calls = 0
    /\ \E content \in ContentTexts, chunk_size \in ContentSizes,
          chunk_overlap \in ContentOverlaps :
         LET r == split_content(content, chunk_size, chunk_overlap)
         IN  chunking' =
               [calls |-> 1, routine |-> "split_content",
                text |-> content, chunk_size |-> chunk_size,
                chunk_overlap |-> chunk_overlap,
                value_error |-> r.raised, starts |-> <<>>,
                chunks |-> r.chunks]
    /\ UNCHANGED <<search, search_stats, fusion, kbase, ingest_vars,
                   chat_vars>>

NextChunk ==
    \/ WindowChunks
    \/ SplitLongParagraph
    \/ SplitContent

SpecChunk == Init /\ [][NextChunk]_vars

\* ------------------------------------------- the knowledge base: endpoints
\* a document of a user is processed: its row is written and the entity of
\* its chunk is stored with the user's id
KbIngest(doc_id, user_id) ==
    /\ ~kbase.rows[doc_id].exists
    /\ kbase' = [kbase EXCEPT
                !.rows[doc_id] = [exists |-> TRUE, user_id |-> user_id,
                                  is_active |-> TRUE],
                !.entities = Append(@, Entity(doc_id, user_id)),
                !.last = [op |-> "ingest", user_id |-> user_id,
                          doc_id |-> doc_id, results |-> <<>>,
                          success |-> TRUE, deleted |-> kbase.deleted]]
    /\ UNCHANGED <<search, search_stats, fusion, chunking, ingest_vars,
                   chat_vars>>

\* query_knowledge_base: the user and group of the request go to
\* search_vectors_async as they are
QueryKnowledgeBase(user_id, group_id, top_k, similarity_threshold, connected) ==
    /\ kbase' = [kbase EXCEPT
                !.last = [op |-> "query", user_id |-> user_id,
                          doc_id |-> "",
                          results |-> search_vectors_async(
                                        kbase.entities, connected, top_k,
                                        similarity_threshold, user_id,
                                        group_id),
                          success |-> TRUE, deleted |-> kbase.deleted]]
    /\ UNCHANGED <<search, search_stats, fusion, chunking, ingest_vars,
                   chat_vars>>

\* VectorService.search_vectors, as KnowledgeService.search calls it: no
\* user is given and the default user is searched for
SearchVectors(top_k, similarity_threshold, connected) ==
    /\ kbase' = [kbase EXCEPT
                !.last = [op |-> "search", user_id |-> DEFAULT_USER_ID,
                          doc_id |-> "",
                          results |-> search_vectors_async(
                                        kbase.entities, connected, top_k,
                                        similarity_threshold,
                                        DEFAULT_USER_ID, NoGroup),
                          success |-> TRUE, deleted |-> kbase.deleted]]
    /\ UNCHANGED <<search, search_stats, fusion, chunking, ingest_vars,
                   chat_vars>>

\* the endpoint delete_document
DeleteDocument(doc_id, user_id, milvus) ==
    /\ LET r == delete_document(kbase, doc_id, user_id, milvus)
       IN  kbase' = [kbase EXCEPT
                    !.rows = r.rows,
                    !.entities = r.entities,
                    !.deleted = IF r.success THEN @ \cup {doc_id} ELSE @,
                    !.last = [op |-> "delete", user_id |-> user_id,
                              doc_id |-> doc_id, results |-> <<>>,
                              success |-> r.success,
                              deleted |-> kbase.deleted]]
    /\ UNCHANGED <<search, search_stats, fusion, chunking, ingest_vars,
                   chat_vars>>

NextKb ==
    \/ \E doc_id \in KbDocIds, user_id \in Users : KbIngest(doc_id, user_id)
    \/ \E user_id \in RequestUsers, group_id \in RequestGroups,
          top_k \in TopKs, similarity_threshold \in Thresholds,
          connected \in BOOLEAN :
         QueryKnowledgeBase(user_id, group_id, top_k, similarity_threshold,
                            connected)
    \/ \E top_k \in TopKs, similarity_threshold \in Thresholds,
          connected \in BOOLEAN :
         SearchVectors(top_k, similarity_threshold, connected)
    \/ \E doc_id \in KbDocIds, user_id \in RequestUsers,
          milvus \in {"ok", "unavailable", "raises"} :
         DeleteDocument(doc_id, user_id, milvus)

SpecKb == Init /\ [][NextKb]_vars

\* ================================================================ claims
StreamEnded(s) == s.pc \in {"y_end", "y_error", "y_return", "done"}
IsBody(u) == u.type \in {"content", "think"}
IsTerminal(u) == u.type \in {"end", "error"} \/ (u.type = NoType /\ u.error # <<>>)
LastUnit(s) == s.out[Len(s.out)]
MaxSeq(rows) ==
    IF rows = {} THEN 0
    ELSE CHOOSE n \in {m.sequence_number : m \in rows} :
           \A m \in rows : m.sequence_number <= n

\* C1: a request id is in active_streams from its registration until its
\* stream has ended, the finalizer removes it exactly once, and after the
\* stream has ended the id is not in the registry.
C1_RegistryCleanup ==
    \A r \in RequestIds :
      /\ streams[r].pc = "unused"
           => r \notin DOMAIN active_streams /\ cleanups[r] = 0
      /\ streams[r].pc \notin {"unused", "done"}
           => r \in DOMAIN active_streams /\ cleanups[r] = 0
      /\ streams[r].pc = "done"
           => r \notin DOMAIN active_streams /\ cleanups[r] = 1

\* a stream that ended through the handler of unexpected exceptions
C1_Witness ==
    \E r \in RequestIds :
      /\ streams[r].pc = "done"
      /\ LastUnit(streams[r]).type = "error"
      /\ cleanups[r] = 1
      /\ r \notin DOMAIN active_streams

\* C2: after stop_stream has set the cancelled flag of a registered request,
\* its stream emits at most one more content/think unit, then nothing but its
\* terminal unit, and it fetches at most one more chunk from the LLM stream.
C2_CancellationLatency ==
    \A r \in RequestIds :
      stop_mark[r].set =>
        LET o == streams[r].out
            suffix == SubSeq(o, stop_mark[r].units + 1, Len(o))
        IN  /\ Len(suffix) <= 2
            /\ Len(suffix) = 1 => IsBody(suffix[1]) \/ IsTerminal(suffix[1])
            /\ Len(suffix) = 2 => IsBody(suffix[1]) /\ IsTerminal(suffix[2])
            /\ streams[r].fetched - stop_mark[r].fetched <= 1

\* the place of a unit in the order the claim gives: request id, start,
\* content/think, title update, terminal; 0 for any other unit
ClaimedRank(u) ==
    CASE u.type = "request_id" -> 1
      [] u.type = "start" -> 2
      [] IsBody(u) -> 3
      [] u.type = "title_update" -> 4
      [] IsTerminal(u) -> 5
      [] OTHER -> 0

\* the same order with the session-info unit and the source unit in it
EmittedRank(u) ==
    CASE u.type = "request_id" -> 1
      [] u.type = "start" -> 2
      [] u.type = "session_info" -> 3
      [] u.type = "source" -> 4
      [] IsBody(u) -> 5
      [] u.type = "title_update" -> 6
      [] IsTerminal(u) -> 7
      [] OTHER -> 0

\* the units of s come in the order of Rank, each kind but the body kind at
\* most once, the request id first and the start marker second, and the
\* stream has ended exactly when the last unit is its terminal unit
InOrder(s, Rank(_), body, terminal) ==
    LET o == s.out
    IN  /\ \A i \in 1..Len(o) : Rank(o[i]) # 0
        /\ \A i, j \in 1..Len(o) :
             i < j => /\ Rank(o[i]) <= Rank(o[j])
                      /\ Rank(o[i]) = Rank(o[j]) => Rank(o[i]) = body
        /\ Len(o) >= 1 => Rank(o[1]) = 1
        /\ Len(o) >= 2 => Rank(o[2]) = 2
        /\ StreamEnded(s) <=> (Len(o) > 0 /\ Rank(LastUnit(s)) = terminal)

C4_CompletionPersists ==
    \A r \in RequestIds :
      LET s == streams[r]
      IN  (/\ s.pc \in {"y_end", "done"}
           /\ ~s.was_cancelled
           /\ \E i \in 1..Len(s.full_response) :
                s.full_response[i] \notin Whitespace)
          => /\ "thinking_process" \in ChatMessageColumns
             /\ \E u, a \in SessionRows(messages, s.request.session_id) :
                  /\ u.role = "user" /\ u.content = s.request.message
                  /\ a.role = "assistant" /\ a.content = s.full_response
                  /\ a.sequence_number = u.sequence_number + 1
                  /\ a.knowledge_sources = s.search_result.knowledge_results
                  /\ a.web_search_results = s.search_result.web_results

C6_FallbackPersists ==
    \A r \in RequestIds :
      LET s == streams[r]
          fallbacks == {i \in 1..Len(s.out) :
                          /\ s.out[i].type = "content"
                          /\ s.out[i].content = FALLBACK_CONTENT}
      IN  (/\ s.pc \in {"y_end", "done"}
           /\ fallbacks # {}
           /\ \A i \in 1..Len(s.out) : IsBody(s.out[i]) => i \in fallbacks)
          => /\ Cardinality(fallbacks) = 1
             /\ s.full_response = FALLBACK_CONTENT
             /\ \E u, a \in SessionRows(messages, s.request.session_id) :
                  /\ u.role = "user" /\ u.content = s.request.message
                  /\ a.role = "assistant" /\ a.content = FALLBACK_CONTENT
                  /\ a.sequence_number = u.sequence_number + 1

\* C7: a row that is stored gets a sequence number larger than every sequence
\* number a row of its session ever had, so no number is used twice.
C7_NeverReused ==
    [][\A m \in messages' \ messages :
         \A p \in used_seq :
           p[1] = m.session_id => p[2] < m.sequence_number]_vars

\* C8: while no row has been deleted, after k appends to a session its rows
\* carry exactly the sequence numbers 1..2k, each once, the user messages the
\* odd ones and the assistant messages the even ones.
C8_SequentialNumbers ==
    ~deleted =>
      \A sid \in SessionIds :
        LET rows == SessionRows(messages, sid)
        IN  /\ {m.sequence_number : m \in rows} = 1..(2 * appended[sid])
            /\ Cardinality(rows) = 2 * appended[sid]
            /\ \A m \in rows :
                 m.role = IF m.sequence_number % 2 = 1
                          THEN "user" ELSE "assistant"

\* two turns on one session: 1,2 then 3,4
C8_Witness ==
    /\ ~deleted
    /\ appended["s1"] = 2
    /\ {m.sequence_number : m \in SessionRows(messages, "s1")} = {1, 2, 3, 4}

\* C9: no two rows of a session carry the same sequence number, also when two
\* calls of save_conversation_history for the session overlap.
C9_NoDuplicateNumbers ==
    \A m1, m2 \in messages :
      (m1.session_id = m2.session_id
       /\ m1.sequence_number = m2.sequence_number) => m1 = m2

\* C10: stop_stream for a request id that is not in active_streams answers
\* 404 and leaves the registry as it is.
C10_StopUnknown ==
    [][\A id \in RequestIds \cup {UnknownRequestId} :
         (StopStream(id) /\ id \notin DOMAIN active_streams)
           => /\ stop_result'.status_code = 404
              /\ active_streams' = active_streams]_vars

\* stop_stream for the id of a stream that has ended
C10_Witness ==
    /\ stop_result = [request_id |-> "r1", status_code |-> 404]
    /\ streams["r1"].pc = "done"
    /\ cleanups["r1"] = 1

\* a stream whose history append was called and stored nothing
AppendFailed(s) ==
    /\ s.save_calls > 0
    /\ ~\E m \in SessionRows(messages, s.request.session_id) :
          m.content = s.request.message

\* C11: a stream whose history append failed after its content was streamed
\* still ends with the end unit as its last unit, has called the append once
\* only, and the store holds no user message without the assistant message
\* that follows it.
C11_AppendFailureLogged ==
    /\ \A r \in RequestIds :
         LET s == streams[r]
         IN  (StreamEnded(s) /\ AppendFailed(s))
               => /\ LastUnit(s).type = "end"
                  /\ Cardinality({i \in 1..Len(s.out) :
                                    IsTerminal(s.out[i])}) = 1
                  /\ s.save_calls = 1
    /\ \A u \in messages :
         u.role = "user" =>
           \E a \in messages :
             /\ a.session_id = u.session_id
             /\ a.role = "assistant"
             /\ a.sequence_number = u.sequence_number + 1

\* the apology was streamed, the append raised, and the stream ended normally
C11_Witness ==
    \E r \in RequestIds :
      /\ streams[r].pc = "done"
      /\ AppendFailed(streams[r])
      /\ \E i \in 1..Len(streams[r].out) :
           streams[r].out[i].type = "content"
      /\ LastUnit(streams[r]).type = "end"
      /\ messages = {}

\* a stream that answered its request with a validation error
Rejected(s) ==
    \E i \in 1..Len(s.out) : s.out[i].type = NoType /\ s.out[i].error # <<>>

\* C12: a chat request without a session id, or a continuing chat whose
\* session does not exist, is rejected before any streaming: its stream has
\* emitted no request-id, start or content unit, and nothing is stored for it.
C12_RejectedBeforeStreaming ==
    \A r \in RequestIds :
      LET s == streams[r]
      IN  ((s.pc # "unused" /\ s.request.session_id = NoSession)
           \/ Rejected(s))
            => /\ \A i \in 1..Len(s.out) :
                    s.out[i].type \notin {"request_id", "start", "content"}
               /\ SessionRows(messages, s.request.session_id) = {}

TitleUpdates(s) == {i \in 1..Len(s.out) : s.out[i].type = "title_update"}

CompleteSet(j) == {<<j, k>> : k \in 1..jobs[j].total}
StoredIds(doc_id) == {v.id : v \in DocVectors(vectors, doc_id)}
Finished(j) == jobs[j].pc = "done"
AllStored(j) == Finished(j) /\ jobs[j].stored = jobs[j].total

\* C14: when a doc_id has been ingested and then ingested again, every chunk
\* of both stored successfully, the collection holds for that doc_id exactly
\* the entities of the chunks of the second ingestion.
C14_ReingestionReplaces ==
    \A j1, j2 \in Jobs :
      (/\ AllStored(j1) /\ AllStored(j2)
       /\ jobs[j1].doc_id = jobs[j2].doc_id
       /\ j1 \in jobs[j2].after)
        => StoredIds(jobs[j2].doc_id) = CompleteSet(j2)

\* C15: from the moment a doc_id has entities in the collection, every state
\* of the collection a search can read holds entities of that doc_id, and
\* they are of one ingestion only.
C15_NoIntermediateState ==
    \A d \in DocIds :
      (\E j \in Jobs : jobs[j].doc_id = d /\ jobs[j].stored > 0)
        => /\ DocVectors(vectors, d) # {}
           /\ \E j \in Jobs : \A v \in DocVectors(vectors, d) : v.job = j

\* C16: when two jobs for the same doc_id that ran at the same time have both
\* finished, the collection holds for that doc_id the complete set of
\* entities of one of them and nothing else.
C16_LastWriterWins ==
    \A j1, j2 \in Jobs :
      (/\ j1 # j2
       /\ Finished(j1) /\ Finished(j2)
       /\ jobs[j1].doc_id = jobs[j2].doc_id
       /\ j1 \notin jobs[j2].after /\ j2 \notin jobs[j1].after)
        => \/ StoredIds(jobs[j1].doc_id) = CompleteSet(j1)
           \/ StoredIds(jobs[j1].doc_id) = CompleteSet(j2)

\* ---------------------------------------------------------------- C17
Terminal == {"completed", "failed"}

StatusStep(a, b) ==
    \/ a = b
    \/ a = "pending" /\ b = "processing"
    \/ a = "processing" /\ b \in Terminal

\* C17: the status of a document only moves pending -> processing ->
\* completed or failed, and a terminal status never changes again, whatever
\* executions of the processing task follow.
C17_StatusLifecycle ==
    [][\A d \in DOMAIN documents :
          StatusStep(documents[d].status, documents'[d].status)]_vars

\* ---------------------------------------------------------------- C18
\* the processing task has run for document d and every embedding task it
\* dispatched has run too
JobOver(d) ==
    /\ task_runs.process_document[d].pc = "idle"
    /\ task_runs.process_document[d].runs > 0
    /\ \A c \in document_chunks :
         c.document_id = d => c.id \notin task_runs.embeddings

SomeChunkStored(d) ==
    \E c \in document_chunks : c.document_id = d /\ c.vector_id # ""

\* C18: once a job that produced chunks is over, its document is completed
\* exactly when at least one of its chunks was embedded and stored, and
\* failed when every chunk failed.
C18_CompletedIffStored ==
    \A d \in DOMAIN documents :
        (JobOver(d) /\ task_runs.process_document[d].chunk_count > 0) =>
            /\ documents[d].status = "completed" <=> SomeChunkStored(d)
            /\ ~SomeChunkStored(d) => documents[d].status = "failed"

\* ---------------------------------------------------------------- C19
\* C19: a document whose extracted text is empty, or whose text yields no
\* chunk, ends failed with an error message and is never completed.
C19_EmptyContentFails ==
    \A d \in DOMAIN documents :
        LET run == task_runs.process_document[d]
        IN  (/\ run.pc = "idle"
             /\ run.runs > 0
             /\ \/ run.extracted = "empty"
                \/ run.extracted = "text" /\ run.chunk_count = 0)
            => /\ documents[d].status = "failed"
               /\ documents[d].error_message # <<>>

\* ---------------------------------------------------------------- C20
\* C20: a job submitted through the file or the post endpoint leaves
\* pending for a terminal status: once no task is queued for its record,
\* the record is completed or failed.
C20_SubmittedJobTerminates ==
    \A k \in DOMAIN kb_documents :
        k \notin task_runs.queue => kb_documents[k].status \in Terminal

\* ---------------------------------------------------------------- C21
\* C21: under strategy knowledge_only or none, intelligent_search does not
\* call the web search and returns no web result, whatever the knowledge
\* base returns.
C21_NoWebUnderKnowledgeOnly ==
    (search.service = "ChatService"
     /\ search.strategy \in {"knowledge_only", "none"})
    => /\ ~search.out.web_queried
       /\ search.out.web_results = <<>>

\* ---------------------------------------------------------------- C22
\* C22: under strategy web_only or none, intelligent_search does not query
\* the knowledge base and returns no knowledge result.
C22_NoKnowledgeUnderWebOnly ==
    (search.service = "ChatService"
     /\ search.strategy \in {"web_only", "none"})
    => /\ ~search.out.knowledge_queried
       /\ search.out.knowledge_results = <<>>

\* ---------------------------------------------------------------- C23
\* C23: under strategy hybrid, intelligent_search queries the knowledge base
\* and the web on every call, whatever the knowledge hits are.
C23_HybridQueriesBoth ==
    (search.service = "ChatService" /\ search.strategy = "hybrid")
    => /\ search.out.knowledge_queried
       /\ search.out.web_queried

\* a hybrid search whose knowledge hits alone would not ask for the web
C23_Witness ==
    /\ search.service = "ChatService"
    /\ search.strategy = "hybrid"
    /\ Len(search.out.knowledge_results) = 3
    /\ ~quality_decision(search.out.knowledge_results).need_web_search
    /\ search.out.web_queried

\* ---------------------------------------------------------------- C24
\* C24: under strategy auto the knowledge base is always queried, and two
\* calls with the same query make the same decision on the web search,
\* whatever the knowledge base returned to each.
C24_AutoDependsOnQueryOnly ==
    [][(/\ search.service = "ChatService"
        /\ search'.service = "ChatService"
        /\ search.strategy = "auto"
        /\ search'.strategy = "auto"
        /\ search.query = search'.query)
       => /\ search'.out.knowledge_queried
          /\ search'.out.web_queried = search.out.web_queried]_vars

\* ---------------------------------------------------------------- C25
\* the web search was called and its API raised
WebFailed ==
    /\ search.out.web_queried
    /\ search.env.enabled
    /\ search.env.api_key
    /\ search.env.api = "raises"

\* C25: when the knowledge-base search raises, intelligent_search goes on
\* with no knowledge hit and returns what the web search gave; when the
\* web search raises, it returns the knowledge hits with no web hit.
C25_GatewayFailureIsSoft ==
    search.service = "ChatService" =>
        /\ search.answer.raises =>
              /\ search.out.knowledge_results = <<>>
              /\ search.out.web_queried
              /\ search.out.web_results =
                    web_search(search.query, search.max_results, search.env)
        /\ WebFailed =>
              /\ search.out.web_results = <<>>
              /\ search.out.knowledge_results =
                    search_vectors(search.answer, 70)

\* the web search failed after the knowledge base had given hits
C25_Witness ==
    /\ search.service = "ChatService"
    /\ WebFailed
    /\ search.out.knowledge_results # <<>>

C27_UnconfiguredIsEmpty ==
    (search.service = "SearchService"
     /\ (~search.env.enabled \/ ~search.env.api_key))
    => search.out.web_results = <<>>

\* ---------------------------------------------------------------- C28
\* C28: the fused list holds no two entries with the same content key (the
\* first 100 characters, stripped, in lower case).
C28_NoDuplicateContent ==
    fusion.calls > 0 =>
        \A i, j \in 1..Len(fusion.out) :
            i # j => get_content_key(fusion.out[i])
                       # get_content_key(fusion.out[j])

\* ---------------------------------------------------------------- C29
\* C29: the fused list is in non-increasing order of final score and no
\* longer than max_results; two empty lists give an empty list.
C29_SortedAndBounded ==
    fusion.calls > 0 =>
        /\ \A i \in 1..(Len(fusion.out) - 1) :
              fusion.out[i].final_score >= fusion.out[i + 1].final_score
        /\ Len(fusion.out) <= fusion.max_results
        /\ (fusion.knowledge_results = <<>> /\ fusion.web_results = <<>>)
              => fusion.out = <<>>

\* a fusion cut to max_results in which a web hit is ranked before a
\* knowledge hit
C29_Witness ==
    /\ fusion.calls > 0
    /\ Len(fusion.knowledge_results) + Len(fusion.web_results)
         > fusion.max_results
    /\ Len(fusion.out) = 2
    /\ fusion.out[1].source_type = "web_search"
    /\ fusion.out[2].source_type = "knowledge_base"
    /\ fusion.out[1].final_score > fusion.out[2].final_score

\* ---------------------------------------------------------------- C30
\* C30: chunking ends with a result for every text, chunk size and overlap,
\* and each window starts at least one character after the window before.
C30_ForwardProgress ==
    chunking.calls > 0 =>
        /\ ~chunking.value_error
        /\ \A i \in 1..(Len(chunking.starts) - 1) :
              chunking.starts[i + 1] >= chunking.starts[i] + 1

\* ---------------------------------------------------------------- C31
\* the two characters split_content puts between the paragraphs of a chunk
SEPARATOR_LENGTH == 2

\* C31: every chunk split_content returns is at most chunk_size long, give
\* or take the separator joined at a boundary.
C31_ChunkWithinSize ==
    chunking.calls > 0 /\ chunking.routine = "split_content" =>
        \A k \in 1..Len(chunking.chunks) :
            Len(chunking.chunks[k]) <= chunking.chunk_size + SEPARATOR_LENGTH

\* ---------------------------------------------------------------- C32
\* the characters of the chunks a call returned
ChunkCharacters ==
    UNION {{chunking.chunks[k][i] : i \in 1..Len(chunking.chunks[k])} :
           k \in 1..Len(chunking.chunks)}

\* C32: the chunks split_content returns cover the text: every character of
\* the text that is not whitespace is found in the chunks.
C32_ChunksCoverText ==
    chunking.calls > 0 /\ chunking.routine = "split_content" =>
        \A i \in Solid(chunking.text) : chunking.text[i] \in ChunkCharacters

\* ---------------------------------------------------------------- C33
\* C33: split_content returns at least one chunk for a text that is not
\* blank, a short only chunk being kept.
C33_NonBlankTextHasChunk ==
    chunking.calls > 0 /\ chunking.routine = "split_content"
    /\ strip(chunking.text) # <<>> =>
        chunking.chunks # <<>>

\* ---------------------------------------------------------------- C34
\* the user a request stands for: its user_id, or the default user
Requester(user_id) == IF user_id # NoUser THEN user_id ELSE DEFAULT_USER_ID

\* C34: a knowledge-base search returns only the vectors of the user it is
\* made for, whether the request names a user or not.
C34_SearchIsUserScoped ==
    kbase.last.op \in {"query", "search"} =>
        \A i \in 1..Len(kbase.last.results) :
            kbase.last.results[i].user_id = Requester(kbase.last.user_id)

\* ---------------------------------------------------------------- C40
\* C40: once delete_document has reported success for a document, no search
\* returns a vector of that document.
C40_DeletedIsNotFound ==
    kbase.last.op \in {"query", "search"} =>
        \A i \in 1..Len(kbase.last.results) :
            kbase.last.results[i].doc_id \notin kbase.last.deleted

\* ---------------------------------------------------------------- C35
\* the database when the cached histories have expired
CacheExpired == [DB EXCEPT !.cache = [x \in DOMAIN cache |-> <<>>]]

\* C35: the history _get_conversation_history reads from the rows is in the
\* order of get_chat_messages, the order of the sequence numbers.
C35_HistoryInSequenceOrder ==
    \A sid \in SessionIds :
        \A h \in get_conversation_history(CacheExpired, sid) :
            \E q \in get_chat_messages(DB, sid) : h.history = Simple(q)

\* ---------------------------------------------------------------- C38
\* C38: after save_conversation_history has stored an exchange, the cached
\* history of the session is its stored messages, each once and in order.
C38_CacheHoldsEachMessageOnce ==
    last_call.op = "save_conversation_history"
    /\ last_call.session_id \in DOMAIN sessions =>
        \E q \in OrderedBySequence(SessionRows(messages,
                                               last_call.session_id)) :
            cache[last_call.session_id] = Simple(LastN(q, HISTORY_LIMIT))

\* ---------------------------------------------------------------- C39
\* the entries of a history with the role and content of a row
Entries(history, m) ==
    {i \in 1..Len(history) :
       history[i].role = m.role /\ history[i].content = m.content}

\* the rows of the session of a row with its role and content
Alike(m) ==
    {x \in SessionRows(messages, m.session_id) :
       x.role = m.role /\ x.content = m.content}

\* C39: after delete_chat_message the history supplied for the session has
\* no entry left for the deleted message.
C39_DeletedLeavesHistory ==
    last_call.op = "delete_chat_message" =>
        \A m \in last_call.before \ messages :
            \A h \in get_conversation_history(DB, m.session_id) :
                Cardinality(Entries(h.history, m)) <= Cardinality(Alike(m))

\* ---------------------------------------------------------------- C37
\* the content units of the units a stream emitted, joined in order
RECURSIVE ContentOf(_)
ContentOf(out) ==
    IF out = <<>> THEN <<>>
    ELSE (IF Head(out).type = "content" THEN Head(out).content ELSE <<>>)
         \o ContentOf(Tail(out))

\* what a stream is to have stored: what it emitted, with the interruption
\* marker when it was cancelled
Persisted(s) ==
    ContentOf(s.out) \o (IF s.was_cancelled THEN INTERRUPT_MARKER ELSE <<>>)

\* C37: the assistant content stored for a stream is the content units it
\* emitted, joined in order: a stream that ended after emitting content has
\* stored it, and every stored assistant message is what a stream emitted.
C37_StoredEqualsEmitted ==
    /\ \A r \in RequestIds :
         LET s == streams[r]
         IN  (/\ s.pc \in {"y_end", "done"}
              /\ LastUnit(s).type = "end"
              /\ ContentOf(s.out) # <<>>)
             => \E a \in SessionRows(messages, s.request.session_id) :
                  a.role = "assistant" /\ a.content = Persisted(s)
    /\ \A a \in messages :
         a.role = "assistant" =>
           \E r \in RequestIds :
             /\ streams[r].request.session_id = a.session_id
             /\ a.content = Persisted(streams[r])

====
